---- MODULE Spec2Model ----
(***************************************************************************)
(* A model of the nanots block engine (nanots.cpp): the catalog rows       *)
(* (blocks, segments, segment_blocks and the delete trigger), the mapped   *)
(* blocks (header counter, index slots, frames), the write contexts with   *)
(* the position each one has reached inside write(), the recovery scan run *)
(* by every Writer that is opened, the range reader and the iterator.      *)
(*                                                                         *)
(* Sizes are scaled: a block is BlockUnits index-entry sizes long instead  *)
(* of a multiple of 65536 bytes; header, index entry and frame header keep *)
(* their byte sizes, so every offset computation is the one of the code.   *)
(* A per-block UUID keeps 2 of its 16 bytes.                               *)
(***************************************************************************)
EXTENDS Integers, Sequences, FiniteSets, TLC

(* ---------------------------------------------------------------------- *)
(* Program constants                                                      *)
(* ---------------------------------------------------------------------- *)
BLOCK_HEADER_SIZE == 16
INDEX_ENTRY_SIZE == 16
FRAME_HEADER_SIZE == 21

NANOTS_EC_OK == 0
NANOTS_EC_NO_FREE_BLOCKS == 3
NANOTS_EC_DUPLICATE_STREAM_TAG == 5
NANOTS_EC_NON_MONOTONIC_TIMESTAMP == 8
NANOTS_EC_ROW_SIZE_TOO_BIG == 9
NANOTS_EC_UNKNOWN == 12

(* ---------------------------------------------------------------------- *)
(* Bounds of the model                                                    *)
(* ---------------------------------------------------------------------- *)
BlockUnits == 8
NBlocks == 3
MaxTimestamp == 3
MaxContexts == 2
MaxSegments == 2
MaxSegmentBlocks == 4
MaxFlags == 1
MaxData == 2
MaxTicks == 1

\* _block_size as read from the file header; allocate() only produces
\* multiples of the mapping granularity, the model multiples of 16.
BlockSize == BlockUnits * INDEX_ENTRY_SIZE

StreamTags == {"", "a"}
Contexts == 1..MaxContexts
BlockIds == 1..NBlocks
Timestamps == 0..MaxTimestamp
Flags == 0..MaxFlags
Data == 1..MaxData

\* The flags and the payload a caller writes with a frame: chosen by the
\* caller from the frame's timestamp, so that frames differ in both.
FlagsOf(timestamp) == timestamp % (MaxFlags + 1)
DataOf(timestamp) == 1 + (timestamp % MaxData)

\* Payload sizes that exercise the layout: a small frame, the largest frame
\* whose offset still lies above the second index slot, the largest frame
\* the size check of write() accepts, and one it rejects.
SmallSize == 3
TightSize == BlockSize - (FRAME_HEADER_SIZE + INDEX_ENTRY_SIZE + BLOCK_HEADER_SIZE) - 15
LimitSize == BlockSize - (FRAME_HEADER_SIZE + INDEX_ENTRY_SIZE + BLOCK_HEADER_SIZE)
Sizes == {SmallSize, TightSize, LimitSize, LimitSize + 1}

MaxSlots == (BlockSize - BLOCK_HEADER_SIZE) \div INDEX_ENTRY_SIZE
Slots == 0..(MaxSlots - 1)

VARIABLES
  db,                   \* the catalog (sqlite file): tables and AUTOINCREMENT counters
  mem,                  \* the container file as mapped: one record per block
  entropy,              \* number of UUIDs drawn from the entropy source
  current_stream_tags,  \* process-wide set of tags with a live write context
  writers,              \* auto_reclaim flags of the Writer objects that are open
  ctx,                  \* the write contexts and their position inside write()
  now,                  \* catalog clock (CURRENT_TIMESTAMP), in seconds
  iter,                 \* one nanots_iterator
  rd,                   \* one nanots_reader::read call in progress / its result
  last_call,            \* outcome of the create_write_context or write call that returned last
  wlog                  \* history: the frames each segment's context committed

vars == <<db, mem, entropy, current_stream_tags, writers, ctx, now, iter, rd,
          last_call, wlog>>

(* ---------------------------------------------------------------------- *)
(* Helpers                                                                *)
(* ---------------------------------------------------------------------- *)
Min(S) == CHOOSE x \in S : \A y \in S : x <= y
Max(S) == CHOOSE x \in S : \A y \in S : x >= y

\* generate_entropy_id: the k-th draw; draws never repeat.
generate_entropy_id(k) == << (k \div 256) % 256, k % 256 >>

\* entropy_id_to_s: two hex digits per byte (the dashes carry no information).
entropy_id_to_s(id) ==
  [i \in 1..(2 * Len(id)) |->
     IF i % 2 = 1 THEN id[(i + 1) \div 2] \div 16 ELSE id[i \div 2] % 16]

\* s_to_entropy_id: dashes removed, then one byte per two hex digits.
s_to_entropy_id(s) ==
  [i \in 1..(Len(s) \div 2) |-> s[2 * i - 1] * 16 + s[2 * i]]

\* the frame size without the rounding
TotalFrameSize(size) == FRAME_HEADER_SIZE + size

\* (total_frame_size + 7) & ~7
PaddedFrameSize(size) == ((FRAME_HEADER_SIZE + size + 7) \div 8) * 8

ZeroEntry == [timestamp |-> 0, offset |-> 0]

\* Bytes [lo, hi) of a block are overwritten: a frame whose header lies in
\* the range no longer carries its UUID, one whose payload lies in it no
\* longer carries its data (data 0).
Clobber(frames, lo, hi) ==
  LET keep == {f \in frames :
                 ~(f.ofs < hi /\ f.ofs + FRAME_HEADER_SIZE > lo)}
  IN {IF f.size > 0 /\ f.ofs + FRAME_HEADER_SIZE < hi
         /\ f.ofs + FRAME_HEADER_SIZE + f.size > lo
      THEN [f EXCEPT !.data = 0] ELSE f : f \in keep}

FramesAt(m, ofs) == {f \in m.frames : f.ofs = ofs}

\* _validate_frame_header: the 16-byte prefix equals the expected UUID.
\* size_out and flags_out are the fields of the frame found there.
_validate_frame_header(m, ofs, expected_uuid) ==
  \E f \in FramesAt(m, ofs) : f.uuid = expected_uuid

FrameOf(m, ofs) == CHOOSE f \in FramesAt(m, ofs) : TRUE

(* ---------------------------------------------------------------------- *)
(* Catalog                                                                *)
(* ---------------------------------------------------------------------- *)
\* trigger delete_empty_segments, run after a segment_blocks row is deleted
DeleteSegmentBlock(d, sb) ==
  LET rest == d.segment_blocks \ {sb}
  IN [d EXCEPT
        !.segment_blocks = rest,
        !.segments = {s \in d.segments :
                        s.id # sb.segment_id
                        \/ \E o \in rest : o.segment_id = s.id}]

ReclaimCandidates(d) ==
  {sb \in d.segment_blocks :
     /\ sb.end_timestamp # 0
     /\ sb.block_id \in DOMAIN d.blocks
     /\ d.blocks[sb.block_id].status \in {"used", "reserved"}}

\* the rows of the query without its ORDER BY
AnyCandidates(d) == ReclaimCandidates(d)

\* ORDER BY sb.end_timestamp ASC, b.reserved_at ASC: the rows that may come first
OldestCandidates(d) ==
  {sb \in ReclaimCandidates(d) :
     \A o \in ReclaimCandidates(d) :
        \/ sb.end_timestamp < o.end_timestamp
        \/ /\ sb.end_timestamp = o.end_timestamp
           /\ d.blocks[sb.block_id].reserved_at <= d.blocks[o.block_id].reserved_at}

\* a reclaim that never finds a row
_db_reclaim_nothing(d, t) == {[ok |-> FALSE, db |-> d, block_id |-> 0]}

\* The outcomes of _db_reclaim_oldest_used_block: nullopt, or the row taken.
_db_reclaim_oldest_used_block(d, t) ==
  IF ReclaimCandidates(d) = {}
  THEN {[ok |-> FALSE, db |-> d, block_id |-> 0]}
  ELSE {[ok |-> TRUE,
         db |-> [DeleteSegmentBlock(d, sb) EXCEPT
                   !.blocks[sb.block_id].status = "reserved",
                   !.blocks[sb.block_id].reserved_at = t],
         block_id |-> sb.block_id] : sb \in OldestCandidates(d)}

FreeBlockIds(d) == {b \in DOMAIN d.blocks : d.blocks[b].status = "free"}

\* _db_get_block handing out a free row without marking it reserved
_db_get_block_unmarked(d, auto_reclaim, t) ==
  IF FreeBlockIds(d) # {}
  THEN {[ok |-> TRUE, db |-> d, block_id |-> Min(FreeBlockIds(d))]}
  ELSE IF auto_reclaim
       THEN _db_reclaim_oldest_used_block(d, t)
       ELSE {[ok |-> FALSE, db |-> d, block_id |-> 0]}

\* _db_get_block: a free row (the first one of the status index) is marked
\* reserved, its reserved_at is left as it was; otherwise reclaim or throw.
_db_get_block(d, auto_reclaim, t) ==
  IF FreeBlockIds(d) # {}
  THEN {[ok |-> TRUE,
         db |-> [d EXCEPT !.blocks[Min(FreeBlockIds(d))].status = "reserved"],
         block_id |-> Min(FreeBlockIds(d))]}
  ELSE IF auto_reclaim
       THEN _db_reclaim_oldest_used_block(d, t)
       ELSE {[ok |-> FALSE, db |-> d, block_id |-> 0]}

_db_create_segment(d, stream_tag) ==
  [d EXCEPT !.segments = @ \cup {[id |-> d.seq_segments + 1,
                                  stream_tag |-> stream_tag]},
            !.seq_segments = @ + 1]

_db_create_segment_block(d, segment_id, sequence, block_id, start_timestamp, end_timestamp, uuid) ==
  [d EXCEPT
     !.segment_blocks = @ \cup
        {[id |-> d.seq_segment_blocks + 1,
          segment_id |-> segment_id,
          sequence |-> sequence,
          block_id |-> block_id,
          block_idx |-> d.blocks[block_id].idx,
          start_timestamp |-> start_timestamp,
          end_timestamp |-> end_timestamp,
          uuid |-> entropy_id_to_s(uuid)]},
     !.seq_segment_blocks = @ + 1]

\* UPDATE segment_blocks SET end_timestamp = ? WHERE id = ?
_db_finalize_block(d, segment_block_id, timestamp) ==
  [d EXCEPT !.segment_blocks =
     {IF sb.id = segment_block_id
      THEN [sb EXCEPT !.end_timestamp = timestamp] ELSE sb : sb \in @}]

PROMOTE_AFTER_SECONDS == 10

\* status 'reserved' and reserved_at older than 10 seconds becomes 'used'
_db_trans_finalize_reserved_blocks(d, t) ==
  [d EXCEPT !.blocks =
     [b \in DOMAIN @ |->
        IF @[b].status = "reserved" /\ @[b].reserved_at < t - PROMOTE_AFTER_SECONDS
        THEN [@[b] EXCEPT !.status = "used"] ELSE @[b]]]

SegmentsOfTag(d, tag) == {s.id : s \in {x \in d.segments : x.stream_tag = tag}}

(* ---------------------------------------------------------------------- *)
(* Initial state: the file and the catalog as allocate() leaves them      *)
(* ---------------------------------------------------------------------- *)
NoTimestamp == [has |-> FALSE, v |-> 0]
NoBlock == [has |-> FALSE, id |-> 0, block_id |-> 0, uuid |-> <<0, 0>>]
NoArgs == [size |-> 0, timestamp |-> 0, flags |-> 0, data |-> 0,
           auto_reclaim |-> FALSE, n |-> 0, ofs |-> 0]
DeadContext ==
  [alive |-> FALSE, stream_tag |-> "", segment_id |-> 0, sequence |-> 0,
   last_timestamp |-> NoTimestamp, current_block |-> NoBlock,
   mapped |-> FALSE, pc |-> "idle", call |-> NoArgs]

EmptyBlock ==
  [block_start_timestamp |-> 0, n_valid_indexes |-> 0,
   index |-> [i \in Slots |-> ZeroEntry], frames |-> {}]

NoCall == [op |-> "none", ec |-> NANOTS_EC_OK, live |-> FALSE]

allocate ==
  [blocks |-> [b \in BlockIds |->
                 [idx |-> b - 1, status |-> "free", reserved_at |-> 0]],
   segments |-> {},
   segment_blocks |-> {},
   seq_segments |-> 0,
   seq_segment_blocks |-> 0]

ClosedIterator ==
  [open |-> FALSE, stream_tag |-> "", segment_id |-> 0, block_sequence |-> 0,
   frame_idx |-> 0, valid |-> FALSE,
   frame |-> [timestamp |-> 0, size |-> 0, flags |-> 0, data |-> 0,
              block_sequence |-> 0],
   cache |-> {}, sought |-> [called |-> FALSE, timestamp |-> 0],
   step |-> "none", was_valid |-> FALSE]

IdleReader ==
  [op |-> "none", stream_tag |-> "", lo |-> 0, hi |-> 0, row |-> 0, n |-> 0,
   out |-> << >>]

Init ==
  /\ db = allocate
  /\ mem = [b \in BlockIds |-> EmptyBlock]
  /\ entropy = 0
  /\ current_stream_tags = {}
  /\ writers = {}
  /\ ctx = [c \in Contexts |-> DeadContext]
  /\ now = 0
  /\ iter = ClosedIterator
  /\ rd = IdleReader
  /\ last_call = NoCall
  /\ wlog = [s \in 1..MaxSegments |-> << >>]


(* ---------------------------------------------------------------------- *)
(* Recovery scan, run by the constructor of every nanots_writer           *)
(* ---------------------------------------------------------------------- *)
IndexAt(m, i) == IF i \in Slots THEN m.index[i] ELSE ZeroEntry

\* The conditions under which the backward scan accepts slot i.
ScanSlotValid(m, n_valid_indexes, i, uuid) ==
  LET timestamp == IndexAt(m, i).timestamp
      offset == IndexAt(m, i).offset
      index_region_end == BLOCK_HEADER_SIZE + ((n_valid_indexes + 1) * INDEX_ENTRY_SIZE)
  IN /\ ~(timestamp = 0 \/ offset = 0)
     /\ ~(offset < index_region_end \/ offset > BlockSize - FRAME_HEADER_SIZE)
     /\ _validate_frame_header(m, offset, uuid)
     /\ ~(FrameOf(m, offset).size > BlockSize - offset - FRAME_HEADER_SIZE)

LastValid(m, uuid) ==
  LET ok == {i \in 0..(m.n_valid_indexes - 1) :
               ScanSlotValid(m, m.n_valid_indexes, i, uuid)}
  IN IF ok = {} THEN -1 ELSE Max(ok)

\* A scan that lowers the counter by one slot at a time instead of to
\* last_valid + 1.
ValidateBlockOneSlot(d, mm, row) ==
  LET b == row.block_idx + 1
      uuid == s_to_entropy_id(row.uuid)
      last_valid == LastValid(mm[b], uuid)
  IN [db |-> IF last_valid >= 0
             THEN [d EXCEPT !.segment_blocks =
                     {IF sb.block_idx = row.block_idx /\ sb.uuid = row.uuid
                      THEN [sb EXCEPT !.end_timestamp =
                                        IndexAt(mm[b], last_valid).timestamp]
                      ELSE sb : sb \in @}]
             ELSE d,
      mem |-> IF last_valid + 1 # mm[b].n_valid_indexes
              THEN [mm EXCEPT ![b].n_valid_indexes = @ - 1]
              ELSE mm]

\* The body of the loop over the open rows, for one row.
ValidateBlock(d, mm, row) ==
  LET b == row.block_idx + 1
      uuid == s_to_entropy_id(row.uuid)
      last_valid == LastValid(mm[b], uuid)
  IN [db |-> IF last_valid >= 0
             THEN [d EXCEPT !.segment_blocks =
                     {IF sb.block_idx = row.block_idx /\ sb.uuid = row.uuid
                      THEN [sb EXCEPT !.end_timestamp =
                                        IndexAt(mm[b], last_valid).timestamp]
                      ELSE sb : sb \in @}]
             ELSE d,
      mem |-> IF last_valid + 1 # mm[b].n_valid_indexes
              THEN [mm EXCEPT ![b].n_valid_indexes = last_valid + 1]
              ELSE mm]

RECURSIVE ValidateRows(_, _, _)
ValidateRows(d, mm, rows) ==
  IF rows = {} THEN [db |-> d, mem |-> mm]
  ELSE LET row == CHOOSE r \in rows : \A o \in rows : r.id <= o.id
           step == ValidateBlock(d, mm, row)
       IN ValidateRows(step.db, step.mem, rows \ {row})

\* SELECT ... FROM segment_blocks sb JOIN segments s ... WHERE sb.end_timestamp = 0
OpenRows(d) ==
  {sb \in d.segment_blocks :
     sb.end_timestamp = 0 /\ \E s \in d.segments : s.id = sb.segment_id}

_validate_blocks(d, mm) == ValidateRows(d, mm, OpenRows(d))

\* nanots_writer::nanots_writer
OpenWriter(auto_reclaim) ==
  /\ writers' = writers \cup {auto_reclaim}
  /\ db' = _validate_blocks(db, mem).db
  /\ mem' = _validate_blocks(db, mem).mem
  /\ last_call' = [op |-> "open", ec |-> NANOTS_EC_OK, live |-> FALSE]
  /\ UNCHANGED <<entropy, current_stream_tags, ctx, now, wlog>>
  /\ rd' = IdleReader
  /\ iter' = ClosedIterator

\* The constructor's scan stopped between its two writes for one open row:
\* the transaction that updates end_timestamp has committed, the store of
\* n_valid_indexes and the flush have not run yet.
ValidateCatalog(row) ==
  /\ writers = {}
  /\ last_call.op # "validate"
  /\ row \in OpenRows(db)
  /\ db' = ValidateBlock(db, mem, row).db
  /\ last_call' = [op |-> "validate", ec |-> NANOTS_EC_OK, live |-> FALSE,
                   row |-> row]
  /\ UNCHANGED <<mem, entropy, current_stream_tags, writers, ctx, now, wlog,
                 iter, rd>>

\* the store of last_valid + 1 and the flush for that row, then the rest of
\* the loop and of the constructor
ValidateCounter ==
  /\ last_call.op = "validate"
  /\ LET fixed == ValidateBlock(db, mem, last_call.row).mem
     IN /\ db' = _validate_blocks(db, fixed).db
        /\ mem' = _validate_blocks(db, fixed).mem
  /\ writers' = writers \cup {TRUE}
  /\ last_call' = [op |-> "open", ec |-> NANOTS_EC_OK, live |-> FALSE]
  /\ UNCHANGED <<entropy, current_stream_tags, ctx, now, wlog>>
  /\ rd' = IdleReader
  /\ iter' = ClosedIterator

\* the process is killed between the two writes
KillValidate ==
  /\ last_call.op = "validate"
  /\ last_call' = [op |-> "killed", ec |-> NANOTS_EC_OK, live |-> FALSE]
  /\ UNCHANGED <<db, mem, entropy, current_stream_tags, writers, ctx, now,
                 wlog, iter, rd>>

(* ---------------------------------------------------------------------- *)
(* Write contexts                                                         *)
(* ---------------------------------------------------------------------- *)
LiveTag(tag) == \E c \in Contexts : ctx[c].alive /\ ctx[c].stream_tag = tag

\* What a move leaves in the std::string it moves from: the libstdc++, libc++
\* and MSVC strings are all left empty.
MovedFrom(stream_tag) == ""

\* write_context::~write_context: the live-tag set
EraseTag(tags, stream_tag) == tags \ {stream_tag}

\* nanots_writer::create_write_context (_active_stream_tags is never filled
\* and its check never fires).  moved: the caller moves the returned context
\* into another object and the object moved from is then destroyed, as
\* nanots_writer_create_context does.
CreateContext(c, tag, moved) ==
  /\ writers # {}
  /\ ~ctx[c].alive
  /\ IF tag \in current_stream_tags
     THEN /\ last_call' = [op |-> "create", ec |-> NANOTS_EC_DUPLICATE_STREAM_TAG,
                           live |-> LiveTag(tag)]
          /\ UNCHANGED <<db, current_stream_tags, ctx>>
     ELSE /\ db.seq_segments < MaxSegments
          /\ db' = _db_create_segment(db, tag)
          /\ current_stream_tags' =
               IF moved THEN EraseTag(current_stream_tags \cup {tag}, MovedFrom(tag))
               ELSE current_stream_tags \cup {tag}
          /\ ctx' = [ctx EXCEPT ![c] =
                       [DeadContext EXCEPT !.alive = TRUE, !.stream_tag = tag,
                                           !.segment_id = db.seq_segments + 1]]
          /\ last_call' = [op |-> "create", ec |-> NANOTS_EC_OK, live |-> LiveTag(tag)]
  /\ UNCHANGED <<mem, entropy, writers, now, wlog>>
  /\ rd' = IdleReader
  /\ iter' = ClosedIterator

create_write_context(c, tag) == CreateContext(c, tag, FALSE)

\* the C wrapper: create_write_context, then std::move into the handle
nanots_writer_create_context(c, tag) == CreateContext(c, tag, TRUE)

\* write_context::~write_context: the catalog part
DestroyFinalize(d, wctx, t) ==
  IF wctx.last_timestamp.has /\ wctx.current_block.has
  THEN _db_trans_finalize_reserved_blocks(
         _db_finalize_block(d, wctx.current_block.id, wctx.last_timestamp.v), t)
  ELSE d

destroy_write_context(c) ==
  /\ ctx[c].alive
  /\ ctx[c].pc = "idle"
  /\ current_stream_tags' = EraseTag(current_stream_tags, ctx[c].stream_tag)
  /\ db' = DestroyFinalize(db, ctx[c], now)
  /\ ctx' = [ctx EXCEPT ![c] = DeadContext]
  /\ UNCHANGED <<mem, entropy, writers, now, last_call, wlog>>
  /\ rd' = IdleReader
  /\ iter' = ClosedIterator

(* ---------------------------------------------------------------------- *)
(* nanots_writer::write.  Each step maps the part of the state a write    *)
(* touches (a record w of db, mem, entropy, ctx, last_call, wlog) to the  *)
(* set of its possible successors; the steps are what another thread can  *)
(* observe of a call.                                                     *)
(* ---------------------------------------------------------------------- *)
World == [db |-> db, mem |-> mem, entropy |-> entropy, ctx |-> ctx,
          last_call |-> last_call, wlog |-> wlog]

Become(w) ==
  /\ db' = w.db
  /\ mem' = w.mem
  /\ entropy' = w.entropy
  /\ ctx' = w.ctx
  /\ last_call' = w.last_call
  /\ wlog' = w.wlog

\* the call returns (ec = NANOTS_EC_OK) or throws (any other code)
Return(w, c, ec) ==
  [w EXCEPT !.last_call = [op |-> "write", ec |-> ec, live |-> TRUE],
            !.ctx[c].pc = "idle",
            !.ctx[c].call = NoArgs]

\* write() entered without the comparison against last_timestamp
WriteEnterUnordered(w, c, auto_reclaim, size, timestamp, flags, data) ==
  IF size > BlockSize - (FRAME_HEADER_SIZE + INDEX_ENTRY_SIZE + BLOCK_HEADER_SIZE)
  THEN [w EXCEPT !.last_call = [op |-> "write", ec |-> NANOTS_EC_ROW_SIZE_TOO_BIG,
                                live |-> TRUE]]
  ELSE [w EXCEPT
          !.ctx[c].pc = IF w.ctx[c].current_block.has THEN "append" ELSE "acquire",
          !.ctx[c].call = [size |-> size, timestamp |-> timestamp,
                           flags |-> flags, data |-> data,
                           auto_reclaim |-> auto_reclaim, n |-> 0, ofs |-> 0]]

\* write() that records the refused timestamp in the context
WriteEnterRecording(w, c, auto_reclaim, size, timestamp, flags, data) ==
  IF w.ctx[c].last_timestamp.has /\ timestamp <= w.ctx[c].last_timestamp.v
  THEN [Return(w, c, NANOTS_EC_NON_MONOTONIC_TIMESTAMP)
          EXCEPT !.ctx[c].last_timestamp.v = timestamp]
  ELSE IF size > BlockSize - (FRAME_HEADER_SIZE + INDEX_ENTRY_SIZE + BLOCK_HEADER_SIZE)
  THEN Return(w, c, NANOTS_EC_ROW_SIZE_TOO_BIG)
  ELSE [w EXCEPT
          !.ctx[c].pc = IF w.ctx[c].current_block.has THEN "append" ELSE "acquire",
          !.ctx[c].call = [size |-> size, timestamp |-> timestamp,
                           flags |-> flags, data |-> data,
                           auto_reclaim |-> auto_reclaim, n |-> 0, ofs |-> 0]]

\* entry: the two argument checks
WriteEnter(w, c, auto_reclaim, size, timestamp, flags, data) ==
  IF w.ctx[c].last_timestamp.has /\ timestamp <= w.ctx[c].last_timestamp.v
  THEN Return(w, c, NANOTS_EC_NON_MONOTONIC_TIMESTAMP)
  ELSE IF size > BlockSize - (FRAME_HEADER_SIZE + INDEX_ENTRY_SIZE + BLOCK_HEADER_SIZE)
  THEN Return(w, c, NANOTS_EC_ROW_SIZE_TOO_BIG)
  ELSE [w EXCEPT
          !.ctx[c].pc = IF w.ctx[c].current_block.has THEN "append" ELSE "acquire",
          !.ctx[c].call = [size |-> size, timestamp |-> timestamp,
                           flags |-> flags, data |-> data,
                           auto_reclaim |-> auto_reclaim, n |-> 0, ofs |-> 0]]

\* The acquisition without the increment of the context's sequence.
AcquireStepSameSequence(w, c, t) ==
  {IF ~r.ok
   THEN Return(w, c, NANOTS_EC_NO_FREE_BLOCKS)
   ELSE [w EXCEPT
           !.db = _db_create_segment_block(
                    r.db, w.ctx[c].segment_id, w.ctx[c].sequence, r.block_id,
                    w.ctx[c].call.timestamp, 0, generate_entropy_id(w.entropy + 1)),
           !.entropy = @ + 1,
           !.ctx[c].current_block =
              [has |-> TRUE, id |-> w.db.seq_segment_blocks + 1,
               block_id |-> r.block_id,
               uuid |-> generate_entropy_id(w.entropy + 1)],
           !.ctx[c].mapped = TRUE,
           !.ctx[c].pc = "recycle"]
   : r \in {x \in _db_get_block(w.db, w.ctx[c].call.auto_reclaim, t) :
              x.ok => w.db.seq_segment_blocks < MaxSegmentBlocks}}

\* if (!wctx.current_block): the catalog transaction that binds a block
AcquireStep(w, c, t) ==
  {IF ~r.ok
   THEN Return(w, c, NANOTS_EC_NO_FREE_BLOCKS)
   ELSE [w EXCEPT
           !.db = _db_create_segment_block(
                    r.db, w.ctx[c].segment_id, w.ctx[c].sequence, r.block_id,
                    w.ctx[c].call.timestamp, 0, generate_entropy_id(w.entropy + 1)),
           !.entropy = @ + 1,
           !.ctx[c].current_block =
              [has |-> TRUE, id |-> w.db.seq_segment_blocks + 1,
               block_id |-> r.block_id,
               uuid |-> generate_entropy_id(w.entropy + 1)],
           !.ctx[c].sequence = @ + 1,
           !.ctx[c].mapped = TRUE,
           !.ctx[c].pc = "recycle"]
   : r \in {x \in _db_get_block(w.db, w.ctx[c].call.auto_reclaim, t) :
              x.ok => w.db.seq_segment_blocks < MaxSegmentBlocks}}

\* _recycle_block
RecycledBlock(m, timestamp) ==
  [block_start_timestamp |-> timestamp,
   n_valid_indexes |-> 0,
   index |-> [i \in Slots |-> IF i < m.n_valid_indexes THEN ZeroEntry ELSE m.index[i]],
   frames |-> Clobber(m.frames, 0,
                      BLOCK_HEADER_SIZE + INDEX_ENTRY_SIZE * m.n_valid_indexes)]

RecycleStep(w, c) ==
  {[w EXCEPT !.mem[w.ctx[c].current_block.block_id] =
               RecycledBlock(@, w.ctx[c].call.timestamp),
             !.ctx[c].pc = "append"]}

\* new_block_ofs computed from the end of the block only, whatever the
\* block already holds
NewBlockOfsFromEnd(m, size) == BlockSize - PaddedFrameSize(size)

\* new_block_ofs as write() computes it from the counter and the last slot
NewBlockOfs(m, size) ==
  LET n_valid_indexes == m.n_valid_indexes
      index_end == BLOCK_HEADER_SIZE + ((n_valid_indexes + 1) * INDEX_ENTRY_SIZE)
      padded_frame_size == PaddedFrameSize(size)
      last_frame_offset == IndexAt(m, n_valid_indexes - 1).offset
  IN IF n_valid_indexes > 0
     THEN IF last_frame_offset >= padded_frame_size
          THEN IF last_frame_offset - padded_frame_size >= index_end
               THEN last_frame_offset - padded_frame_size
               ELSE index_end
          ELSE index_end
     ELSE BlockSize - padded_frame_size

IndexEnd(m) == BLOCK_HEADER_SIZE + ((m.n_valid_indexes + 1) * INDEX_ENTRY_SIZE)

\* the rollover test with > in place of >=
BlockFullStrict(m, size) == IndexEnd(m) > NewBlockOfs(m, size)

\* if (index_end >= new_block_ofs)
BlockFull(m, size) == IndexEnd(m) >= NewBlockOfs(m, size)

\* the frame written with the counter advanced at once
WriteFrameCounted(w, c) ==
  LET b == w.ctx[c].current_block.block_id
      ofs == NewBlockOfs(w.mem[b], w.ctx[c].call.size)
  IN [w EXCEPT
        !.mem[b].frames =
           Clobber(@, ofs, ofs + FRAME_HEADER_SIZE + w.ctx[c].call.size)
           \cup {[ofs |-> ofs, uuid |-> w.ctx[c].current_block.uuid,
                  size |-> w.ctx[c].call.size, flags |-> w.ctx[c].call.flags,
                  data |-> w.ctx[c].call.data]},
        !.mem[b].n_valid_indexes = @ + 1,
        !.ctx[c].pc = "index",
        !.ctx[c].call.n = w.mem[b].n_valid_indexes,
        !.ctx[c].call.ofs = ofs]

\* the frame bytes: uuid, size, flags, payload
WriteFrame(w, c) ==
  LET b == w.ctx[c].current_block.block_id
      ofs == NewBlockOfs(w.mem[b], w.ctx[c].call.size)
  IN [w EXCEPT
        !.mem[b].frames =
           Clobber(@, ofs, ofs + FRAME_HEADER_SIZE + w.ctx[c].call.size)
           \cup {[ofs |-> ofs, uuid |-> w.ctx[c].current_block.uuid,
                  size |-> w.ctx[c].call.size, flags |-> w.ctx[c].call.flags,
                  data |-> w.ctx[c].call.data]},
        !.ctx[c].pc = "index",
        !.ctx[c].call.n = w.mem[b].n_valid_indexes,
        !.ctx[c].call.ofs = ofs]

\* the rollover branch: finalize the block, drop it, call write() again
Rollover(w, c) ==
  IF ~w.ctx[c].last_timestamp.has
  THEN \* last_timestamp.value() throws; the transaction rolls back
       Return(w, c, NANOTS_EC_UNKNOWN)
  ELSE [w EXCEPT
          !.db = _db_finalize_block(@, w.ctx[c].current_block.id,
                                    w.ctx[c].last_timestamp.v),
          !.ctx[c].current_block = NoBlock,
          !.ctx[c].mapped = FALSE,
          !.ctx[c].pc = "acquire"]

AppendStep(w, c) ==
  {IF BlockFull(w.mem[w.ctx[c].current_block.block_id], w.ctx[c].call.size)
   THEN Rollover(w, c)
   ELSE WriteFrame(w, c)}

\* the index entry of slot n
IndexStep(w, c) ==
  LET b == w.ctx[c].current_block.block_id
      n == w.ctx[c].call.n
  IN {[w EXCEPT
         !.mem[b].index = [i \in Slots |->
                             IF i = n
                             THEN [timestamp |-> w.ctx[c].call.timestamp,
                                   offset |-> w.ctx[c].call.ofs]
                             ELSE @[i]],
         !.mem[b].frames = Clobber(@, BLOCK_HEADER_SIZE + n * INDEX_ENTRY_SIZE,
                                   BLOCK_HEADER_SIZE + (n + 1) * INDEX_ENTRY_SIZE),
         !.ctx[c].pc = "commit"]}

\* __atomic_fetch_add(valid_counter, 1, release); wctx.last_timestamp = timestamp
CommitStep(w, c) ==
  LET done == [w EXCEPT
                 !.mem[w.ctx[c].current_block.block_id].n_valid_indexes = @ + 1,
                 !.ctx[c].last_timestamp = [has |-> TRUE, v |-> w.ctx[c].call.timestamp],
                 !.wlog[w.ctx[c].segment_id] =
                    Append(@, [timestamp |-> w.ctx[c].call.timestamp,
                               size |-> w.ctx[c].call.size,
                               flags |-> w.ctx[c].call.flags,
                               data |-> w.ctx[c].call.data,
                               segment_block |-> w.ctx[c].current_block.id])]
  IN {Return(done, c, NANOTS_EC_OK)}

WriteStep(w, c, t) ==
  CASE w.ctx[c].pc = "acquire" -> AcquireStep(w, c, t)
    [] w.ctx[c].pc = "recycle" -> RecycleStep(w, c)
    [] w.ctx[c].pc = "append" -> AppendStep(w, c)
    [] w.ctx[c].pc = "index" -> IndexStep(w, c)
    [] w.ctx[c].pc = "commit" -> CommitStep(w, c)
    [] OTHER -> {}

\* The call run to its return.  A call that is still recursing when the
\* catalog holds MaxSegmentBlocks rows has no outcome in the model.
RECURSIVE RunWrite(_, _, _)
RunWrite(w, c, t) ==
  IF w.ctx[c].pc = "idle" THEN {w}
  ELSE UNION {RunWrite(x, c, t) : x \in WriteStep(w, c, t)}

\* write() as one call
write(c, auto_reclaim, size, timestamp, flags, data) ==
  /\ ctx[c].alive
  /\ ctx[c].pc = "idle"
  /\ ctx[c].current_block.has => ctx[c].mapped
  /\ auto_reclaim \in writers
  /\ \E w \in RunWrite(WriteEnter(World, c, auto_reclaim, size, timestamp, flags, data),
                       c, now) : Become(w)
  /\ UNCHANGED <<current_stream_tags, writers, now>>
  /\ rd' = IdleReader
  /\ iter' = ClosedIterator

\* write() entered by a thread that other threads then run beside
BeginWrite(c, auto_reclaim, size, timestamp, flags, data) ==
  /\ ctx[c].alive
  /\ ctx[c].pc = "idle"
  /\ ctx[c].current_block.has => ctx[c].mapped
  /\ auto_reclaim \in writers
  /\ Become(WriteEnter(World, c, auto_reclaim, size, timestamp, flags, data))
  /\ UNCHANGED <<current_stream_tags, writers, now, iter, rd>>

StepOf(c, pc) ==
  /\ ctx[c].pc = pc
  /\ \E w \in WriteStep(World, c, now) : Become(w)
  /\ UNCHANGED <<current_stream_tags, writers, now, iter, rd>>

AcquireBlock(c) == StepOf(c, "acquire")
_recycle_block(c) == StepOf(c, "recycle")
AppendFrame(c) == StepOf(c, "append")
WriteIndex(c) == StepOf(c, "index")
Commit(c) == StepOf(c, "commit")

\* a selection that also takes the rows only partially inside the range
FreeRowsOverlapping(d, stream_tag, start_timestamp, end_timestamp) ==
  {sb \in d.segment_blocks :
     /\ \E s \in d.segments : s.id = sb.segment_id /\ s.stream_tag = stream_tag
     /\ sb.start_timestamp <= end_timestamp
     /\ sb.end_timestamp >= start_timestamp
     /\ sb.end_timestamp # 0}

\* nanots_writer::free_blocks
FreeRows(d, stream_tag, start_timestamp, end_timestamp) ==
  {sb \in d.segment_blocks :
     /\ \E s \in d.segments : s.id = sb.segment_id /\ s.stream_tag = stream_tag
     /\ sb.start_timestamp >= start_timestamp
     /\ sb.end_timestamp <= end_timestamp
     /\ sb.end_timestamp # 0}

RECURSIVE FreeEach(_, _)
FreeEach(d, rows) ==
  IF rows = {} THEN d
  ELSE LET row == CHOOSE r \in rows : \A o \in rows : r.id <= o.id
       IN FreeEach([DeleteSegmentBlock(d, row) EXCEPT
                      !.blocks[row.block_id].status = "free"],
                   rows \ {row})

free_blocks(stream_tag, start_timestamp, end_timestamp) ==
  /\ writers # {}
  /\ db' = FreeEach(db, FreeRows(db, stream_tag, start_timestamp, end_timestamp))
  /\ UNCHANGED <<mem, entropy, current_stream_tags, writers, ctx, now,
                 last_call, wlog>>
  /\ rd' = IdleReader
  /\ iter' = ClosedIterator

\* nts_sqlite_transaction when the body or COMMIT throws: ROLLBACK discards
\* what the statements of the transaction have done
KeepReached(begun, reached) == reached

ROLLBACK(begun, reached) == begun

\* the orders in which the SELECT of free_blocks may return its rows
FreeOrders(rows) == {o \in [1..Cardinality(rows) -> rows] : \A i, j \in DOMAIN o : i # j => o[i] # o[j]}

\* the catalog as the transaction sees it after `done` statements of the
\* loop: DELETE of row i is statement 2i-1, UPDATE of its block statement 2i
RECURSIVE StatementsDone(_, _, _)
StatementsDone(d, order, done) ==
  IF done = 0 THEN d
  ELSE LET before == StatementsDone(d, order, done - 1)
           row == order[(done + 1) \div 2]
       IN IF done % 2 = 1 THEN DeleteSegmentBlock(before, row)
          ELSE [before EXCEPT !.blocks[row.block_id].status = "free"]

\* free_blocks in which the statement after `done` completed ones fails (the
\* COMMIT when all have completed); the C interface returns UNKNOWN
free_blocks_throws(stream_tag, start_timestamp, end_timestamp, done) ==
  /\ writers # {}
  /\ \E order \in FreeOrders(FreeRows(db, stream_tag, start_timestamp, end_timestamp)) :
       /\ done <= 2 * Len(order)
       /\ db' = ROLLBACK(db, StatementsDone(db, order, done))
  /\ last_call' = [op |-> "free_blocks", ec |-> NANOTS_EC_UNKNOWN, live |-> FALSE,
                   done |-> done]
  /\ rd' = IdleReader
  /\ iter' = ClosedIterator
  /\ UNCHANGED <<mem, entropy, current_stream_tags, writers, ctx, now, wlog>>

\* The process is killed: no destructor runs, the mapped file and the
\* catalog keep what was written.
Crash ==
  /\ writers # {}
  /\ writers' = {}
  /\ ctx' = [c \in Contexts |-> DeadContext]
  /\ current_stream_tags' = {}
  /\ iter' = ClosedIterator
  /\ rd' = IdleReader
  /\ UNCHANGED <<db, mem, entropy, now, last_call, wlog>>

\* ---- failing catalog transactions ----
\* nts_sqlite_transaction rolls the catalog back and rethrows when a statement
\* or the COMMIT fails (disk full, I/O error, SQLITE_BUSY).  The three places
\* below are the transactions of create_write_context, ~write_context and
\* the block acquisition of write().

\* No call holds current_stream_tags_lok.
MutexFree == \A c \in Contexts : ctx[c].pc # "relock"

\* create_write_context whose segment transaction fails after the
\* duplicate-tag check: the exception unwinds the local write_context while
\* the lock_guard of the call is still alive, and ~write_context arrives at
\* its own lock_guard on the same std::mutex.
create_write_context_fails(c, tag) ==
  /\ writers # {}
  /\ MutexFree
  /\ ~ctx[c].alive
  /\ ctx[c].pc = "idle"
  /\ tag \notin current_stream_tags
  /\ ctx' = [ctx EXCEPT ![c].pc = "relock", ![c].stream_tag = tag]
  /\ UNCHANGED <<db, mem, entropy, current_stream_tags, writers, now, iter, rd, last_call, wlog>>

\* Locking a std::mutex the thread already owns is undefined: the thread
\* blocks for ever (no step of the call follows), or the lock reports
\* resource_deadlock_would_occur inside the destructor and the process is
\* terminated.
RelockTerminates(c) ==
  /\ ctx[c].pc = "relock"
  /\ last_call' = [op |-> "create", ec |-> NANOTS_EC_UNKNOWN, live |-> FALSE]
  /\ writers' = {}
  /\ ctx' = [k \in Contexts |-> DeadContext]
  /\ current_stream_tags' = {}
  /\ iter' = ClosedIterator
  /\ rd' = IdleReader
  /\ UNCHANGED <<db, mem, entropy, now, wlog>>

\* ~write_context whose finalize transaction fails: the exception leaves a
\* destructor, which is noexcept, and std::terminate ends the process; the
\* catalog is rolled back.
destroy_write_context_fails(c) ==
  /\ ctx[c].alive
  /\ ctx[c].pc = "idle"
  /\ MutexFree
  /\ ctx[c].last_timestamp.has
  /\ ctx[c].current_block.has
  /\ last_call' = [op |-> "destroy", ec |-> NANOTS_EC_UNKNOWN, live |-> FALSE]
  /\ writers' = {}
  /\ ctx' = [k \in Contexts |-> DeadContext]
  /\ current_stream_tags' = {}
  /\ iter' = ClosedIterator
  /\ rd' = IdleReader
  /\ UNCHANGED <<db, mem, entropy, now, wlog>>

\* The acquisition transaction of write() fails at COMMIT: the catalog is
\* rolled back, but current_block and the incremented sequence, assigned
\* inside the transaction, stay in the context, and the block is not mapped.
AcquireCommitFails(c) ==
  /\ ctx[c].pc = "acquire"
  /\ \E r \in _db_get_block(db, ctx[c].call.auto_reclaim, now) :
       /\ r.ok
       /\ db.seq_segment_blocks < MaxSegmentBlocks
       /\ Become(Return([World EXCEPT
            !.entropy = @ + 1,
            !.ctx[c].current_block =
               [has |-> TRUE, id |-> db.seq_segment_blocks + 1,
                block_id |-> r.block_id,
                uuid |-> generate_entropy_id(entropy + 1)],
            !.ctx[c].sequence = @ + 1], c, NANOTS_EC_UNKNOWN))
  /\ UNCHANGED <<current_stream_tags, writers, now, iter, rd>>

\* the catalog clock (datetime('now')) passes the promotion age
Tick ==
  /\ now < MaxTicks * (PROMOTE_AFTER_SECONDS + 1)
  /\ now' = now + PROMOTE_AFTER_SECONDS + 1
  /\ UNCHANGED <<db, mem, entropy, current_stream_tags, writers, ctx, iter, rd,
                 last_call, wlog>>

\* the timestamps of a caller that writes consecutive times
Advancing(c) ==
  Timestamps \cap (IF ctx[c].last_timestamp.has
                   THEN {ctx[c].last_timestamp.v + 1} ELSE {0, 1})

\* write() on a context whose current_block is set but not mapped reads
\* through the null mapping: the process is killed.
WriteUnmapped(c) ==
  /\ ctx[c].alive
  /\ ctx[c].pc = "idle"
  /\ ctx[c].current_block.has
  /\ ~ctx[c].mapped
  /\ Advancing(c) # {}
  /\ Crash

(* ---------------------------------------------------------------------- *)
(* nanots_reader::read                                                    *)
(* ---------------------------------------------------------------------- *)
NoFrame == [timestamp |-> 0, size |-> 0, flags |-> 0, data |-> 0, block_sequence |-> 0]

\* what the callback (or the iterator's current frame) is given for a slot
FrameAtSlot(m, i, block_sequence) ==
  LET f == FrameOf(m, IndexAt(m, i).offset)
  IN [timestamp |-> IndexAt(m, i).timestamp, size |-> f.size, flags |-> f.flags,
      data |-> f.data, block_sequence |-> block_sequence]

\* _compare_index_entry_timestamp
_compare_index_entry_timestamp(entry_timestamp, target_timestamp) ==
  IF entry_timestamp < target_timestamp THEN -1
  ELSE IF entry_timestamp > target_timestamp THEN 1 ELSE 0

\* lower_bound_bytes over the index slots [0, N) of a block
RECURSIVE LowerBoundLoop(_, _, _, _)
LowerBoundLoop(m, low, high, target) ==
  IF low < high
  THEN LET mid == low + (high - low) \div 2
       IN IF _compare_index_entry_timestamp(IndexAt(m, mid).timestamp, target) >= 0
          THEN LowerBoundLoop(m, low, mid, target)
          ELSE LowerBoundLoop(m, mid + 1, high, target)
  ELSE low

lower_bound_bytes(m, N, target) == LowerBoundLoop(m, 0, N, target)

\* nanots_reader::query_contiguous_segments. The rows of the CTE
\* contiguous_groups: the segment_blocks of the stream that pass the WHERE
\* clause (bind 1 is end_timestamp, bind 2 start_timestamp, bind 3 the tag).
contiguous_groups(d, stream_tag, start_timestamp, end_timestamp) ==
  {sb \in d.segment_blocks :
     /\ \E s \in d.segments : s.id = sb.segment_id /\ s.stream_tag = stream_tag
     /\ sb.start_timestamp <= end_timestamp
     /\ (sb.end_timestamp >= start_timestamp \/ sb.end_timestamp = 0)}

\* ROW_NUMBER() OVER (PARTITION BY sb.segment_id ORDER BY sb.sequence) -
\* sb.sequence, over the selected rows (rows of equal sequence in rowid order)
group_key(rows, sb) ==
  Cardinality({o \in rows :
                 /\ o.segment_id = sb.segment_id
                 /\ \/ o.sequence < sb.sequence
                    \/ o.sequence = sb.sequence /\ o.id <= sb.id}) - sb.sequence

\* the CTE region_boundaries: GROUP BY segment_id, group_key
region_boundaries(rows) ==
  {LET grp == {o \in rows : o.segment_id = sb.segment_id
                            /\ group_key(rows, o) = group_key(rows, sb)}
   IN [segment_id |-> sb.segment_id,
       group_key |-> group_key(rows, sb),
       region_start |-> Min({o.start_timestamp : o \in grp}),
       region_end |-> Max({o.end_timestamp : o \in grp}),
       block_count |-> Cardinality(grp)] : sb \in rows}

\* ORDER BY segment_id, region_start; each row becomes a contiguous_segment
RECURSIVE OrderRegions(_)
OrderRegions(regions) ==
  IF regions = {} THEN << >>
  ELSE LET r == CHOOSE x \in regions : \A y \in regions :
                  \/ x.segment_id < y.segment_id
                  \/ /\ x.segment_id = y.segment_id
                     /\ \/ x.region_start < y.region_start
                        \/ /\ x.region_start = y.region_start
                           /\ x.group_key >= y.group_key
       IN <<[segment_id |-> r.segment_id,
             start_timestamp |-> r.region_start,
             end_timestamp |-> r.region_end]>> \o OrderRegions(regions \ {r})

query_contiguous_segments(d, stream_tag, start_timestamp, end_timestamp) ==
  OrderRegions(region_boundaries(
    contiguous_groups(d, stream_tag, start_timestamp, end_timestamp)))

\* nanots_reader::query_stream_tags: the join of segments and segment_blocks
\* under the WHERE clause (bind 1 is end_timestamp, bind 2 start_timestamp)
TagRows(d, start_timestamp, end_timestamp) ==
  {<<s, sb>> \in d.segments \X d.segment_blocks :
     /\ s.id = sb.segment_id
     /\ sb.start_timestamp <= end_timestamp
     /\ (sb.end_timestamp >= start_timestamp \/ sb.end_timestamp = 0)}

\* the result vector: one element per row of the result set, in some order
RECURSIVE TagVector(_)
TagVector(tags) ==
  IF tags = {} THEN << >>
  ELSE LET tag == CHOOSE t \in tags : TRUE
       IN <<tag>> \o TagVector(tags \ {tag})

\* SELECT DISTINCT s.stream_tag
query_stream_tags(d, start_timestamp, end_timestamp) ==
  TagVector({r[1].stream_tag : r \in TagRows(d, start_timestamp, end_timestamp)})

\* the rows the query of read() selects
ReadRows(d, stream_tag, start_timestamp, end_timestamp) ==
  {sb \in d.segment_blocks :
     /\ \E s \in d.segments : s.id = sb.segment_id /\ s.stream_tag = stream_tag
     /\ sb.start_timestamp <= end_timestamp
     /\ (sb.end_timestamp >= start_timestamp \/ sb.end_timestamp = 0)}

\* ORDER BY sb.sequence ASC: every order of the rows that the clause allows
RowOrders(rows) ==
  {o \in [1..Cardinality(rows) -> rows] :
     /\ \A i, j \in DOMAIN o : i # j => o[i] # o[j]
     /\ \A i, j \in DOMAIN o : i < j => o[i].sequence <= o[j].sequence}

\* the loop over the slots of one block; stop is the early return
RECURSIVE ReadSlots(_, _, _, _, _, _, _)
ReadSlots(m, uuid, i, n_valid_indexes, end_timestamp, block_sequence, out) ==
  IF i >= n_valid_indexes THEN [out |-> out, stop |-> FALSE]
  ELSE IF IndexAt(m, i).timestamp > end_timestamp THEN [out |-> out, stop |-> TRUE]
  ELSE IF ~_validate_frame_header(m, IndexAt(m, i).offset, uuid)
  THEN ReadSlots(m, uuid, i + 1, n_valid_indexes, end_timestamp, block_sequence, out)
  ELSE ReadSlots(m, uuid, i + 1, n_valid_indexes, end_timestamp, block_sequence,
                 Append(out, FrameAtSlot(m, i, block_sequence)))

\* the loop over the rows
RECURSIVE ReadLoop(_, _, _, _, _, _, _)
ReadLoop(order, r, mm, start_timestamp, end_timestamp, need_binary_search, out) ==
  IF r > Len(order) THEN out
  ELSE LET row == order[r]
           m == mm[row.block_idx + 1]
           n_valid_indexes == m.n_valid_indexes
           start_index == IF need_binary_search
                          THEN lower_bound_bytes(m, n_valid_indexes, start_timestamp)
                          ELSE 0
           res == ReadSlots(m, s_to_entropy_id(row.uuid), start_index, n_valid_indexes,
                            end_timestamp, row.sequence, out)
       IN IF res.stop THEN res.out
          ELSE ReadLoop(order, r + 1, mm, start_timestamp, end_timestamp, FALSE, res.out)

\* the callbacks of one read() call, in order, for one row order
ReadCallbacks(order, mm, start_timestamp, end_timestamp) ==
  ReadLoop(order, 1, mm, start_timestamp, end_timestamp, TRUE, << >>)

\* nanots_reader::read, the whole call
read(stream_tag, start_timestamp, end_timestamp) ==
  /\ start_timestamp <= end_timestamp
  /\ \E order \in RowOrders(ReadRows(db, stream_tag, start_timestamp, end_timestamp)) :
       rd' = [op |-> "read", stream_tag |-> stream_tag, lo |-> start_timestamp,
              hi |-> end_timestamp, row |-> 0, n |-> 0,
              out |-> ReadCallbacks(order, mem, start_timestamp, end_timestamp)]
  /\ UNCHANGED <<db, mem, entropy, current_stream_tags, writers, ctx, now, iter,
                 last_call, wlog>>

\* read(), step by step on one row: the acquire load of n_valid_indexes ...
ReadLoad(stream_tag) ==
  /\ \E row \in ReadRows(db, stream_tag, 0, MaxTimestamp) :
       rd' = [op |-> "load", stream_tag |-> stream_tag, lo |-> 0, hi |-> MaxTimestamp,
              row |-> row.id, n |-> mem[row.block_idx + 1].n_valid_indexes,
              out |-> << >>]
  /\ UNCHANGED <<db, mem, entropy, current_stream_tags, writers, ctx, now, iter,
                 last_call, wlog>>

\* ... and one pass of the loop over the slots below the loaded count: what
\* the slot holds (NoFrame when the frame header does not validate)
ReadSlot ==
  /\ rd.op = "load"
  /\ Len(rd.out) < rd.n
  /\ \E row \in db.segment_blocks :
       /\ row.id = rd.row
       /\ LET m == mem[row.block_idx + 1]
              i == Len(rd.out)
          IN rd' = [rd EXCEPT !.out =
                      Append(@, IF _validate_frame_header(m, IndexAt(m, i).offset,
                                                          s_to_entropy_id(row.uuid))
                                THEN FrameAtSlot(m, i, row.sequence)
                                ELSE NoFrame)]
  /\ UNCHANGED <<db, mem, entropy, current_stream_tags, writers, ctx, now, iter,
                 last_call, wlog>>

(* ---------------------------------------------------------------------- *)
(* nanots_iterator.  A block_info pointer is the cache key it points to.  *)
(* ---------------------------------------------------------------------- *)
NullBlock == [ok |-> FALSE, segment_id |-> 0, sequence |-> 0]
BlockPtr(segment_id, sequence) ==
  [ok |-> TRUE, segment_id |-> segment_id, sequence |-> sequence]

Cached(cache, segment_id, sequence) ==
  {b \in cache : b.segment_id = segment_id /\ b.block_sequence = sequence}

\* the block_info a pointer refers to
Deref(cache, ptr) == CHOOSE b \in Cached(cache, ptr.segment_id, ptr.sequence) : TRUE

\* _get_block_by_segment_and_sequence: the cache after the call and the
\* pointer returned
_get_block_by_segment_and_sequence(cache, d, segment_id, sequence) ==
  LET rows == {sb \in d.segment_blocks :
                 /\ sb.segment_id = segment_id
                 /\ sb.sequence = sequence
                 /\ \E s \in d.segments : s.id = sb.segment_id}
      row == CHOOSE r \in rows : \A o \in rows : r.id <= o.id
  IN IF Cached(cache, segment_id, sequence) # {}
     THEN [cache |-> cache, ptr |-> BlockPtr(segment_id, sequence)]
     ELSE IF rows = {}
     THEN [cache |-> cache, ptr |-> NullBlock]
     ELSE [cache |-> cache \cup
                     {[segment_id |-> row.segment_id,
                       block_sequence |-> row.sequence,
                       block_idx |-> row.block_idx,
                       uuid_hex |-> row.uuid,
                       start_timestamp |-> row.start_timestamp,
                       end_timestamp |-> row.end_timestamp,
                       is_loaded |-> FALSE,
                       n_valid_indexes |-> 0]},
           ptr |-> BlockPtr(segment_id, sequence)]

\* the rows of a stream joined with their segment
\* the rows of every stream: the join without the stream_tag condition
RowsOfAnyTag(d, stream_tag) == d.segment_blocks

StreamRows(d, stream_tag) ==
  {sb \in d.segment_blocks :
     \E s \in d.segments : s.id = sb.segment_id /\ s.stream_tag = stream_tag}

\* ORDER BY s.id ASC, sb.sequence ASC LIMIT 1
FirstRow(rows) ==
  CHOOSE r \in rows : \A o \in rows :
     \/ r.segment_id < o.segment_id
     \/ r.segment_id = o.segment_id /\ r.sequence < o.sequence
     \/ r.segment_id = o.segment_id /\ r.sequence = o.sequence /\ r.id <= o.id

\* ORDER BY s.id DESC, sb.sequence DESC LIMIT 1
LastRow(rows) ==
  CHOOSE r \in rows : \A o \in rows :
     \/ r.segment_id > o.segment_id
     \/ r.segment_id = o.segment_id /\ r.sequence > o.sequence
     \/ r.segment_id = o.segment_id /\ r.sequence = o.sequence /\ r.id >= o.id

LookupRow(cache, d, rows) ==
  IF rows = {} THEN [cache |-> cache, ptr |-> NullBlock]
  ELSE _get_block_by_segment_and_sequence(cache, d, FirstRow(rows).segment_id,
                                          FirstRow(rows).sequence)

_get_first_block(it, d) == LookupRow(it.cache, d, StreamRows(d, it.stream_tag))

_get_next_block(it, d) ==
  LET same == {sb \in d.segment_blocks :
                 sb.segment_id = it.segment_id /\ sb.sequence > it.block_sequence}
      later == {sb \in StreamRows(d, it.stream_tag) : sb.segment_id > it.segment_id}
  IN IF same # {}
     THEN _get_block_by_segment_and_sequence(it.cache, d, it.segment_id,
                                             FirstRow(same).sequence)
     ELSE LookupRow(it.cache, d, later)

_get_prev_block(it, d) ==
  LET same == {sb \in d.segment_blocks :
                 sb.segment_id = it.segment_id /\ sb.sequence < it.block_sequence}
      earlier == {sb \in StreamRows(d, it.stream_tag) : sb.segment_id < it.segment_id}
  IN IF same # {}
     THEN _get_block_by_segment_and_sequence(it.cache, d, it.segment_id,
                                             LastRow(same).sequence)
     ELSE IF earlier = {} THEN [cache |-> it.cache, ptr |-> NullBlock]
     ELSE _get_block_by_segment_and_sequence(it.cache, d, LastRow(earlier).segment_id,
                                             LastRow(earlier).sequence)

_find_block_for_timestamp(it, d, timestamp) ==
  LET containing == {sb \in StreamRows(d, it.stream_tag) :
                       /\ sb.start_timestamp <= timestamp
                       /\ (sb.end_timestamp >= timestamp \/ sb.end_timestamp = 0)}
      following == {sb \in StreamRows(d, it.stream_tag) : sb.start_timestamp >= timestamp}
  IN IF containing # {} THEN LookupRow(it.cache, d, containing)
     ELSE LookupRow(it.cache, d, following)

\* _load_block_data: the counter is read once, when the block is first loaded
_load_block_data(cache, mm, ptr) ==
  {IF b.segment_id = ptr.segment_id /\ b.block_sequence = ptr.sequence /\ ~b.is_loaded
   THEN [b EXCEPT !.is_loaded = TRUE,
                  !.n_valid_indexes = mm[b.block_idx + 1].n_valid_indexes]
   ELSE b : b \in cache}

\* the frame of slot frame_idx of the block a pointer refers to, if it validates
SlotValid(cache, mm, ptr, frame_idx) ==
  LET block == Deref(cache, ptr)
      m == mm[block.block_idx + 1]
  IN _validate_frame_header(m, IndexAt(m, frame_idx).offset,
                            s_to_entropy_id(block.uuid_hex))

SlotFrame(cache, mm, ptr, frame_idx) ==
  LET block == Deref(cache, ptr)
  IN FrameAtSlot(mm[block.block_idx + 1], frame_idx, block.block_sequence)

_load_current_frame(it, d, mm) ==
  LET got == _get_block_by_segment_and_sequence(it.cache, d, it.segment_id,
                                                it.block_sequence)
      cache == _load_block_data(got.cache, mm, got.ptr)
  IN IF ~got.ptr.ok THEN [it EXCEPT !.valid = FALSE]
     ELSE IF it.frame_idx >= Deref(cache, got.ptr).n_valid_indexes
     THEN [it EXCEPT !.cache = cache, !.valid = FALSE]
     ELSE IF ~SlotValid(cache, mm, got.ptr, it.frame_idx)
     THEN [it EXCEPT !.cache = cache, !.valid = FALSE]
     ELSE [it EXCEPT !.cache = cache, !.valid = TRUE,
                     !.frame = SlotFrame(cache, mm, got.ptr, it.frame_idx)]

\* nanots_iterator::reset
reset(it, d, mm) ==
  LET first_block == _get_first_block(it, d)
  IN IF ~first_block.ptr.ok
     THEN [it EXCEPT !.cache = first_block.cache, !.valid = FALSE]
     ELSE _load_current_frame(
            [it EXCEPT !.cache = first_block.cache,
                       !.segment_id = first_block.ptr.segment_id,
                       !.block_sequence = first_block.ptr.sequence,
                       !.frame_idx = 0], d, mm)

\* nanots_iterator::nanots_iterator
NewIterator(stream_tag, d, mm) ==
  reset([ClosedIterator EXCEPT !.open = TRUE, !.stream_tag = stream_tag], d, mm)

\* nanots_iterator::operator++
Increment(it, d, mm) ==
  LET got == _get_block_by_segment_and_sequence(it.cache, d, it.segment_id,
                                                it.block_sequence)
      cache == _load_block_data(got.cache, mm, got.ptr)
      stepped == [it EXCEPT !.cache = cache, !.frame_idx = @ + 1]
      next_block == _get_next_block(stepped, d)
  IN IF ~it.valid THEN it
     ELSE IF ~got.ptr.ok THEN [it EXCEPT !.valid = FALSE]
     ELSE IF stepped.frame_idx >= Deref(cache, got.ptr).n_valid_indexes
     THEN IF ~next_block.ptr.ok
          THEN [stepped EXCEPT !.cache = next_block.cache, !.valid = FALSE]
          ELSE _load_current_frame(
                 [stepped EXCEPT !.cache = next_block.cache,
                                 !.segment_id = next_block.ptr.segment_id,
                                 !.block_sequence = next_block.ptr.sequence,
                                 !.frame_idx = 0], d, mm)
     ELSE _load_current_frame(stepped, d, mm)

\* operator-- without the early return on an invalid iterator
DecrementRevived(it, d, mm) == _load_current_frame(it, d, mm)

\* nanots_iterator::operator--
Decrement(it, d, mm) ==
  LET prev_block == _get_prev_block(it, d)
      cache == _load_block_data(prev_block.cache, mm, prev_block.ptr)
      n == Deref(cache, prev_block.ptr).n_valid_indexes
  IN IF ~it.valid THEN it
     ELSE IF it.frame_idx = 0
     THEN IF ~prev_block.ptr.ok
          THEN [it EXCEPT !.cache = prev_block.cache, !.valid = FALSE]
          ELSE _load_current_frame(
                 [it EXCEPT !.cache = cache,
                            !.segment_id = prev_block.ptr.segment_id,
                            !.block_sequence = prev_block.ptr.sequence,
                            !.frame_idx = IF n > 0 THEN n - 1 ELSE 0], d, mm)
     ELSE _load_current_frame([it EXCEPT !.frame_idx = @ - 1], d, mm)

\* nanots_iterator::find.  After the advance to next_block the slot is still
\* read through block, the block the catalog lookup selected.
find(it, d, mm, timestamp) ==
  LET block == _find_block_for_timestamp(it, d, timestamp)
      cache == _load_block_data(block.cache, mm, block.ptr)
      n_valid_indexes == Deref(cache, block.ptr).n_valid_indexes
      m == mm[Deref(cache, block.ptr).block_idx + 1]
      here == [it EXCEPT !.cache = cache,
                         !.segment_id = block.ptr.segment_id,
                         !.block_sequence = block.ptr.sequence,
                         !.frame_idx = lower_bound_bytes(m, n_valid_indexes, timestamp)]
      next_block == _get_next_block(here, d)
      there == [here EXCEPT !.cache = next_block.cache,
                            !.segment_id = next_block.ptr.segment_id,
                            !.block_sequence = next_block.ptr.sequence,
                            !.frame_idx = 0]
      at == IF here.frame_idx >= n_valid_indexes THEN there ELSE here
  IN IF ~block.ptr.ok
     THEN [it EXCEPT !.cache = block.cache, !.valid = FALSE]
     ELSE IF here.frame_idx >= n_valid_indexes /\ ~next_block.ptr.ok
     THEN [here EXCEPT !.cache = next_block.cache, !.valid = FALSE]
     ELSE IF ~SlotValid(at.cache, mm, block.ptr, at.frame_idx)
     THEN [at EXCEPT !.valid = FALSE]
     ELSE [at EXCEPT !.valid = TRUE,
                     !.frame = SlotFrame(at.cache, mm, block.ptr, at.frame_idx)]

\* for (; it.valid(); ++it): the frames visited
RECURSIVE Visit(_, _, _, _)
Visit(it, d, mm, out) ==
  IF ~it.valid THEN out
  ELSE Visit(Increment(it, d, mm), d, mm, Append(out, it.frame))

IterateAll(stream_tag, d, mm) == Visit(NewIterator(stream_tag, d, mm), d, mm, << >>)

\* a new iterator stepped with ++ until it is invalid
Iterate(stream_tag) ==
  /\ rd' = [op |-> "iterate", stream_tag |-> stream_tag, lo |-> 0, hi |-> 0, row |-> 0,
            n |-> 0,
            out |-> IterateAll(stream_tag, db, mem)]
  /\ UNCHANGED <<db, mem, entropy, current_stream_tags, writers, ctx, now, iter,
                 last_call, wlog>>

\* a new iterator, then find(timestamp) on it
Find(stream_tag, timestamp) ==
  /\ iter' = [find(NewIterator(stream_tag, db, mem), db, mem, timestamp)
                EXCEPT !.sought = [called |-> TRUE, timestamp |-> timestamp]]
  /\ UNCHANGED <<db, mem, entropy, current_stream_tags, writers, ctx, now, rd,
                 last_call, wlog>>

\* One iterator object: constructed, stepped with ++ and --, positioned with
\* find; `step` names the last call made on it and `was_valid` is valid()
\* before that call.
Called(it, step, result) == [result EXCEPT !.step = step, !.was_valid = it.valid]

OpenIterator(stream_tag) ==
  /\ ~iter.open
  /\ iter' = Called(iter, "new", NewIterator(stream_tag, db, mem))
  /\ UNCHANGED <<db, mem, entropy, current_stream_tags, writers, ctx, now, rd,
                 last_call, wlog>>

CallIterator(step, result) ==
  /\ iter.open
  /\ iter' = Called(iter, step, result)
  /\ UNCHANGED <<db, mem, entropy, current_stream_tags, writers, ctx, now, rd,
                 last_call, wlog>>

PlusPlus == CallIterator("++", Increment(iter, db, mem))
MinusMinus == CallIterator("--", Decrement(iter, db, mem))
Seek(timestamp) == CallIterator("find", find(iter, db, mem, timestamp))

\* nanots_iterator_reset on the iterator object
Reset == CallIterator("reset", reset(iter, db, mem))

\* nanots_iterator::~nanots_iterator
CloseIterator ==
  /\ iter.open
  /\ iter' = ClosedIterator
  /\ UNCHANGED <<db, mem, entropy, current_stream_tags, writers, ctx, now, rd,
                 last_call, wlog>>

(* ---------------------------------------------------------------------- *)
(* Specifications                                                         *)
(* ---------------------------------------------------------------------- *)
\* One Writer object, one stream written through one context at a time,
\* every call run to its return.
OneStream(sizes) ==
  \/ \E ar \in BOOLEAN : writers = {} /\ OpenWriter(ar)
  \/ create_write_context(1, "a")
  \/ destroy_write_context(1)
  \/ \E ar \in BOOLEAN, size \in sizes, ts \in Timestamps :
       write(1, ar, size, ts, FlagsOf(ts), DataOf(ts))

Next ==
  \/ OneStream(Sizes)
  \/ Iterate("a")

Spec == Init /\ [][Next]_vars

\* One stream written through successive contexts of a Writer that never
\* reclaims, and range reads of it.
ReadSizes == {SmallSize, TightSize}

Stream ==
  \/ writers = {} /\ OpenWriter(FALSE)
  \/ create_write_context(1, "a")
  \/ destroy_write_context(1)
  \/ \E size \in ReadSizes, ts \in Timestamps :
       write(1, FALSE, size, ts, FlagsOf(ts), DataOf(ts))

NextRead ==
  \/ Stream
  \/ \E lo, hi \in Timestamps : read("a", lo, hi)

SpecRead == Init /\ [][NextRead]_vars

\* The same stream, and find() on a new iterator.
NextFind ==
  \/ Stream
  \/ \E ts \in Timestamps : Find("a", ts)

SpecFind == Init /\ [][NextFind]_vars

\* One stream written through successive contexts with payloads of every
\* size class, accepted and refused.
NextWrites ==
  \/ writers = {} /\ OpenWriter(FALSE)
  \/ create_write_context(1, "a")
  \/ destroy_write_context(1)
  \/ \E size \in Sizes, ts \in Timestamps :
       write(1, FALSE, size, ts, FlagsOf(ts), DataOf(ts))

SpecWrites == Init /\ [][NextWrites]_vars

\* One context appending step by step (frame, index entry, counter) to fresh
\* blocks while a reader loads the counter of a block and reads its slots.
NextAppend ==
  \/ writers = {} /\ OpenWriter(FALSE)
  \/ create_write_context(1, "a")
  \/ \E size \in ReadSizes : \E ts \in Advancing(1) :
       BeginWrite(1, FALSE, size, ts, FlagsOf(ts), DataOf(ts))
  \/ AcquireBlock(1)
  \/ _recycle_block(1)
  \/ AppendFrame(1)
  \/ WriteIndex(1)
  \/ Commit(1)
  \/ ReadLoad("a")
  \/ ReadSlot

SpecAppend == Init /\ [][NextAppend]_vars

\* Appends step by step by a Writer that reclaims, the process killed at any
\* step and the file opened again.
NextCrash ==
  \/ writers = {} /\ OpenWriter(TRUE)
  \/ create_write_context(1, "a")
  \/ destroy_write_context(1)
  \/ \E size \in ReadSizes : \E ts \in Advancing(1) :
       BeginWrite(1, TRUE, size, ts, FlagsOf(ts), DataOf(ts))
  \/ AcquireBlock(1)
  \/ _recycle_block(1)
  \/ AppendFrame(1)
  \/ WriteIndex(1)
  \/ Commit(1)
  \/ Crash

SpecCrash == Init /\ [][NextCrash]_vars

\* Two streams filling the file one frame per block through a Writer that
\* reclaims; the writes of context 1 run step by step, so that the catalog a
\* block is acquired from is a state.
NextReclaim ==
  \/ Tick
  \/ writers = {} /\ OpenWriter(TRUE)
  \/ create_write_context(1, "a")
  \/ create_write_context(2, "")
  \/ \E c \in Contexts : destroy_write_context(c)
  \/ \E ts \in Advancing(1) :
       BeginWrite(1, TRUE, TightSize, ts, FlagsOf(ts), DataOf(ts))
  \/ AcquireBlock(1)
  \/ _recycle_block(1)
  \/ AppendFrame(1)
  \/ WriteIndex(1)
  \/ Commit(1)
  \/ \E ts \in Advancing(2) :
       write(2, TRUE, TightSize, ts, FlagsOf(ts), DataOf(ts))

SpecReclaim == Init /\ [][NextReclaim]_vars

\* Two contexts on two tags writing through one Writer that reclaims.
NextLive ==
  \/ writers = {} /\ OpenWriter(TRUE)
  \/ create_write_context(1, "a")
  \/ create_write_context(2, "")
  \/ \E c \in Contexts : destroy_write_context(c)
  \/ \E c \in Contexts, size \in ReadSizes : \E ts \in Advancing(c) :
       write(c, TRUE, size, ts, FlagsOf(ts), DataOf(ts))

SpecLive == Init /\ [][NextLive]_vars

\* Two contexts on two tags in one process, each writing small frames at
\* consecutive times: Writer objects (auto_reclaim enabled) are opened at
\* any time, blocks are freed, the clock passes the promotion age.
NextCatalog ==
  \/ Tick
  \/ OpenWriter(TRUE)
  \/ create_write_context(1, "a")
  \/ create_write_context(2, "")
  \/ \E c \in Contexts : destroy_write_context(c)
  \/ \E c \in Contexts : \E ts \in Advancing(c) :
       write(c, TRUE, SmallSize, ts, FlagsOf(ts), DataOf(ts))
  \/ \E tag \in StreamTags, hi \in Timestamps : free_blocks(tag, 0, hi)

SpecCatalog == Init /\ [][NextCatalog]_vars

\* Contexts created through the C++ and through the C interface, on both
\* tags, by one Writer, and written to.
NextTags ==
  \/ writers = {} /\ OpenWriter(FALSE)
  \/ \E c \in Contexts, tag \in StreamTags : create_write_context(c, tag)
  \/ \E c \in Contexts, tag \in StreamTags : nanots_writer_create_context(c, tag)
  \/ \E c \in Contexts : destroy_write_context(c)
  \/ \E c \in Contexts, ts \in Timestamps :
       write(c, FALSE, SmallSize, ts, FlagsOf(ts), DataOf(ts))

SpecTags == Init /\ [][NextTags]_vars

\* Two contexts on two tags writing interleaved through one Writer, with
\* auto_reclaim or without; each stream carries its own flags value, as in
\* the multiple-stream tests. Either stream is iterated or read in full.
StreamFlags(c) == (c - 1) % (MaxFlags + 1)

NextStreams ==
  \/ writers = {} /\ \E ar \in BOOLEAN : OpenWriter(ar)
  \/ create_write_context(1, "a")
  \/ create_write_context(2, "")
  \/ \E c \in Contexts : destroy_write_context(c)
  \/ \E c \in Contexts, ar \in BOOLEAN, size \in ReadSizes : \E ts \in Advancing(c) :
       write(c, ar, size, ts, StreamFlags(c), DataOf(ts))
  \/ \E tag \in StreamTags : Iterate(tag)
  \/ \E tag \in StreamTags : read(tag, 0, MaxTimestamp)

SpecStreams == Init /\ [][NextStreams]_vars

\* A stream "a" written one block-filling frame at a time through successive
\* contexts and a stream "" of small frames written through a context that
\* stays alive, by one Writer that never reclaims; ranges of either stream
\* are freed at any time.
NextFree ==
  \/ writers = {} /\ OpenWriter(FALSE)
  \/ create_write_context(1, "a")
  \/ create_write_context(2, "")
  \/ destroy_write_context(1)
  \/ \E ts \in Advancing(1) :
       write(1, FALSE, TightSize, ts, FlagsOf(ts), DataOf(ts))
  \/ \E ts \in Advancing(2) \ {0} :
       write(2, FALSE, SmallSize, ts, FlagsOf(ts), DataOf(ts))
  \/ \E tag \in StreamTags, lo \in Timestamps : \E hi \in lo..MaxTimestamp :
       free_blocks(tag, lo, hi)

\* One stream appended to step by step, the process killed at any step and
\* the file opened again; between the calls of the writer an iterator is
\* constructed, moved over the stream and destroyed.
NextIter ==
  \/ /\ ~iter.open
     /\ \/ writers = {} /\ OpenWriter(FALSE)
        \/ create_write_context(1, "a")
        \/ destroy_write_context(1)
        \/ \E size \in ReadSizes : \E ts \in Advancing(1) :
             BeginWrite(1, FALSE, size, ts, FlagsOf(ts), DataOf(ts))
        \/ AcquireBlock(1)
        \/ _recycle_block(1)
        \/ AppendFrame(1)
        \/ WriteIndex(1)
        \/ Commit(1)
        \/ Crash
  \/ ctx[1].pc = "idle" /\ OpenIterator("a")
  \/ PlusPlus
  \/ MinusMinus
  \/ \E ts \in Timestamps : Seek(ts)
  \/ CloseIterator

SpecIter == Init /\ [][NextIter]_vars

SpecFree == Init /\ [][NextFree]_vars

\* The same, with calls of free_blocks in which a statement fails.
NextRollback ==
  \/ NextFree
  \/ \E tag \in StreamTags, hi \in Timestamps, done \in 0..(2 * NBlocks) :
       free_blocks_throws(tag, 0, hi, done)

SpecRollback == Init /\ [][NextRollback]_vars

\* One stream appended to step by step and the process killed at any step,
\* as in SpecCrash, with the recovery scan of the next Writer taken in two
\* steps for one of the open rows and the process killed between them.
\* The payload size that, appended after a frame of SmallSize bytes, puts
\* the second frame of a block 8 bytes above the end of its index region
\* (16 + 2 * 16): write() accepts it (index_end < new_block_ofs), the scan's
\* bound index_region_end = 16 + (2 + 1) * 16 does not.
EdgeSize == BlockSize - (BLOCK_HEADER_SIZE + 2 * INDEX_ENTRY_SIZE + 8) - PaddedFrameSize(SmallSize) - FRAME_HEADER_SIZE

ScanSizes == {SmallSize, EdgeSize}

NextScan ==
  \/ writers = {} /\ last_call.op # "validate" /\ OpenWriter(TRUE)
  \/ \E row \in db.segment_blocks : ValidateCatalog(row)
  \/ ValidateCounter
  \/ KillValidate
  \/ create_write_context(1, "a")
  \/ destroy_write_context(1)
  \/ \E size \in ScanSizes : \E ts \in Advancing(1) :
       BeginWrite(1, TRUE, size, ts, FlagsOf(ts), DataOf(ts))
  \/ AcquireBlock(1)
  \/ _recycle_block(1)
  \/ AppendFrame(1)
  \/ WriteIndex(1)
  \/ Commit(1)
  \/ Crash

SpecScan == Init /\ [][NextScan]_vars

\* One iterator object kept open while its stream is written with
\* auto_reclaim: the steps of the writer's calls and the iterator's calls
\* interleave.  A second stream holds one block.
NextRefresh ==
  \/ writers = {} /\ OpenWriter(TRUE)
  \/ create_write_context(1, "a")
  \/ \E size \in ReadSizes : \E ts \in Advancing(1) :
       BeginWrite(1, TRUE, size, ts, FlagsOf(ts), DataOf(ts))
  \/ AcquireBlock(1)
  \/ _recycle_block(1)
  \/ AppendFrame(1)
  \/ WriteIndex(1)
  \/ Commit(1)
  \/ ~iter.open /\ create_write_context(2, "")
  \/ ~iter.open /\ ~ctx[2].last_timestamp.has
       /\ write(2, TRUE, TightSize, 1, FlagsOf(1), DataOf(1))
  \/ OpenIterator("a")
  \/ PlusPlus
  \/ Reset
  \/ \E ts \in Timestamps : Seek(ts)
  \/ CloseIterator

SpecRefresh == Init /\ [][NextRefresh]_vars

\* A file as a reader may find it: one finalized block of stream "a" whose
\* single counted slot points at a frame header with any UUID and any value
\* in its size field, read by range reads and by one iterator.
HeaderSizes == {SmallSize, LimitSize, LimitSize + 1, BlockSize}
HeaderOffsets == {BLOCK_HEADER_SIZE + 2 * INDEX_ENTRY_SIZE, BlockSize - PaddedFrameSize(SmallSize)}

InitHeaders ==
  \E size \in HeaderSizes, ofs \in HeaderOffsets, k \in 1..2, ts \in 1..MaxTimestamp :
     /\ db = _db_finalize_block(
                _db_create_segment_block(
                   _db_create_segment([allocate EXCEPT !.blocks[1].status = "used"], "a"),
                   1, 0, 1, ts, 0, generate_entropy_id(1)), 1, ts)
     /\ mem = [b \in BlockIds |->
                IF b = 1
                THEN [EmptyBlock EXCEPT
                        !.block_start_timestamp = ts,
                        !.n_valid_indexes = 1,
                        !.index[0] = [timestamp |-> ts, offset |-> ofs],
                        !.frames = {[ofs |-> ofs, uuid |-> generate_entropy_id(k),
                                     size |-> size, flags |-> FlagsOf(ts),
                                     data |-> DataOf(ts)]}]
                ELSE EmptyBlock]
     /\ entropy = 2
     /\ current_stream_tags = {}
     /\ writers = {}
     /\ ctx = [c \in Contexts |-> DeadContext]
     /\ now = 0
     /\ iter = ClosedIterator
     /\ rd = IdleReader
     /\ last_call = NoCall
     /\ wlog = [s \in 1..MaxSegments |-> << >>]

NextHeaders ==
  \/ \E lo, hi \in Timestamps : read("a", lo, hi)
  \/ OpenIterator("a")
  \/ PlusPlus
  \/ MinusMinus
  \/ Reset
  \/ \E ts \in Timestamps : Seek(ts)
  \/ CloseIterator

SpecHeaders == InitHeaders /\ [][NextHeaders]_vars

\* One writing context whose write() is taken step by step, a second context
\* that is only created and destroyed, auto_reclaim off, and the catalog
\* transactions of create_write_context, ~write_context and of the block
\* acquisition allowed to fail.
NextFailures ==
  \/ writers = {} /\ OpenWriter(FALSE)
  \/ \E c \in Contexts : MutexFree /\ ctx[c].pc = "idle" /\ create_write_context(c, IF c = 1 THEN "a" ELSE "")
  \/ \E c \in Contexts : create_write_context_fails(c, IF c = 1 THEN "a" ELSE "")
  \/ \E c \in Contexts : RelockTerminates(c)
  \/ \E c \in Contexts : MutexFree /\ destroy_write_context(c)
  \/ \E c \in Contexts : destroy_write_context_fails(c)
  \/ \E size \in ReadSizes : \E ts \in Advancing(1) : BeginWrite(1, FALSE, size, ts, FlagsOf(ts), DataOf(ts))
  \/ AcquireBlock(1)
  \/ AcquireCommitFails(1)
  \/ _recycle_block(1)
  \/ AppendFrame(1)
  \/ WriteIndex(1)
  \/ Commit(1)
  \/ WriteUnmapped(1)
  \/ \E hi \in Timestamps : free_blocks("a", 0, hi)

SpecFailures == Init /\ [][NextFailures]_vars

(* ---------------------------------------------------------------------- *)
(* Properties                                                             *)
(* ---------------------------------------------------------------------- *)
Payload(f) == [timestamp |-> f.timestamp, size |-> f.size, flags |-> f.flags,
               data |-> f.data]
Payloads(frames) == [i \in DOMAIN frames |-> Payload(frames[i])]

\* the frames written to a stream, in segment order then write order
RECURSIVE WrittenFrom(_, _)
WrittenFrom(s, tag) ==
  IF s > MaxSegments THEN << >>
  ELSE (IF s \in SegmentsOfTag(db, tag) THEN Payloads(wlog[s]) ELSE << >>)
       \o WrittenFrom(s + 1, tag)

Written(tag) == WrittenFrom(1, tag)

StrictlyIncreasing(frames) ==
  \A i, j \in DOMAIN frames : i < j => frames[i].timestamp < frames[j].timestamp

\* the stream was written through one context, which has been destroyed,
\* and a new iterator has been stepped over it
Iterated ==
  /\ rd.op = "iterate"
  /\ ~LiveTag(rd.stream_tag)
  /\ Cardinality(SegmentsOfTag(db, rd.stream_tag)) = 1

\* C1 as stated: after the context is destroyed, a new iterator stepped with
\* ++ until it is invalid yields exactly the frames written, in write order,
\* each with the same payload, size, flags and timestamp.
C1_RoundTripAnyWriter == Iterated => Payloads(rd.out) = Written(rd.stream_tag)

\* C1: the same round trip for writes made through a Writer opened with
\* auto_reclaim disabled (no block of the stream is ever taken back).
C1_RoundTrip ==
  (Iterated /\ writers = {FALSE}) => Payloads(rd.out) = Written(rd.stream_tag)

\* a round trip over a rollover: frames of two blocks, two payload sizes
C1_Witness ==
  /\ Iterated
  /\ writers = {FALSE}
  /\ Len(rd.out) >= 3
  /\ \E i, j \in DOMAIN rd.out :
        /\ rd.out[i].block_sequence # rd.out[j].block_sequence
        /\ rd.out[i].size # rd.out[j].size

\* C7 as stated: the timestamps of a stream's frames, in the order an
\* iterator visits them across all blocks and segments, strictly increase.
C7_MonotoneAcrossSegments == rd.op = "iterate" => StrictlyIncreasing(rd.out)

\* C7: the timestamps of the frames of a stream that consists of one segment
\* (written through one write context), in iteration order, strictly increase.
C7_MonotoneWithinSegment ==
  (rd.op = "iterate" /\ Cardinality(SegmentsOfTag(db, rd.stream_tag)) <= 1)
     => StrictlyIncreasing(rd.out)

\* one segment iterated over a rollover after a write was refused as
\* non-monotonic
C7_Witness ==
  /\ rd.op = "iterate"
  /\ Cardinality(SegmentsOfTag(db, rd.stream_tag)) = 1
  /\ Len(rd.out) >= 3
  /\ \E i, j \in DOMAIN rd.out : rd.out[i].block_sequence # rd.out[j].block_sequence

\* C3: at most one write context holds a given block as its current block.
C3_SingleHolder ==
  \A c1, c2 \in Contexts :
     (c1 # c2 /\ ctx[c1].alive /\ ctx[c2].alive
        /\ ctx[c1].current_block.has /\ ctx[c2].current_block.has)
     => ctx[c1].current_block.block_id # ctx[c2].current_block.block_id

BlockRefs(b) == {sb \in db.segment_blocks : sb.block_id = b}

\* C5: every block is referenced by at most one segment_block row; a free
\* block by none, a reserved or used block by exactly one.
C5_BlockAccounting ==
  \A b \in BlockIds :
     /\ Cardinality(BlockRefs(b)) <= 1
     /\ db.blocks[b].status = "free" => BlockRefs(b) = {}
     /\ db.blocks[b].status \in {"reserved", "used"} => Cardinality(BlockRefs(b)) = 1

\* a block freed after use beside a promoted block, after a block was bound
\* a second time
C5_Witness ==
  /\ \E b \in BlockIds : db.blocks[b].status = "used" /\ Cardinality(BlockRefs(b)) = 1
  /\ \E b \in BlockIds : db.blocks[b].status = "free" /\ mem[b].n_valid_indexes > 0
  /\ db.seq_segment_blocks > NBlocks

\* C10: create_write_context fails with DUPLICATE_STREAM_TAG exactly when a
\* write context for the tag is alive, and succeeds otherwise.
C10_DuplicateIffLive ==
  last_call.op = "create" =>
     /\ (last_call.ec = NANOTS_EC_DUPLICATE_STREAM_TAG) <=> last_call.live
     /\ ~last_call.live => last_call.ec = NANOTS_EC_OK

InRange(f) == rd.lo <= f.timestamp /\ f.timestamp <= rd.hi

\* C8: read(stream_tag, lo, hi) calls back exactly once for every committed
\* frame of the stream with lo <= timestamp <= hi, for no other frame, and in
\* increasing timestamp order (for a stream whose timestamps increase over
\* its segments).
C8_ReadRange ==
  (rd.op = "read" /\ StrictlyIncreasing(Written(rd.stream_tag)))
     => Payloads(rd.out) = SelectSeq(Written(rd.stream_tag), InRange)

AtOrAfter(frames, timestamp) ==
  {i \in DOMAIN frames : frames[i].timestamp >= timestamp}

\* C9: find(ts) on a new iterator returns true positioned on the committed
\* frame with the smallest timestamp >= ts, and returns false leaving the
\* iterator invalid when the stream has no such frame (for a stream whose
\* timestamps increase over its segments).
C9_FindFirstAtOrAfter ==
  (iter.sought.called /\ StrictlyIncreasing(Written(iter.stream_tag))) =>
     LET frames == Written(iter.stream_tag)
         later == AtOrAfter(frames, iter.sought.timestamp)
     IN IF later = {} THEN ~iter.valid
        ELSE iter.valid /\ Payload(iter.frame) = frames[Min(later)]

\* the frames whose append to the block of a row completed
CommittedTo(row) ==
  LET Mine(f) == f.segment_block = row.id
  IN SelectSeq(wlog[row.segment_id], Mine)

\* the frames a reader of the block of a row is given
Readable(row) ==
  ReadSlots(mem[row.block_idx + 1], s_to_entropy_id(row.uuid), 0,
            mem[row.block_idx + 1].n_valid_indexes, MaxTimestamp, row.sequence,
            << >>).out

\* C2: a reader that loaded n_valid_indexes = k finds, whenever it reads them,
\* the slots [0, k) and their frames completely written: they are the first k
\* frames committed to the block.
C2_LoadedPrefixWritten ==
  rd.op = "load" =>
     \A row \in db.segment_blocks :
        row.id = rd.row =>
           /\ rd.n <= Len(CommittedTo(row))
           /\ \A i \in DOMAIN rd.out :
                 Payload(rd.out[i]) = Payload(CommittedTo(row)[i])

\* a reader has read every slot below the count it loaded while the writer is
\* between the index entry and the counter increment of a further slot of the
\* same block
C2_Witness ==
  /\ rd.op = "load"
  /\ rd.n >= 1
  /\ Len(rd.out) = rd.n
  /\ ctx[1].pc = "commit"
  /\ ctx[1].current_block.id = rd.row

\* C4: after the process was killed during appends and the file is opened for
\* writing again, every frame whose append completed is readable, no other
\* frame is, and end_timestamp of a block with frames is the timestamp of its
\* last readable frame.
C4_CrashRecovery ==
  (last_call.op = "open" /\ writers # {}) =>
     \A row \in db.segment_blocks :
        /\ Payloads(Readable(row)) = Payloads(CommittedTo(row))
        /\ Readable(row) # << >> =>
              row.end_timestamp = Readable(row)[Len(Readable(row))].timestamp

\* C6: in every state, for every referenced block with n_valid_indexes = k,
\* each slot of [0, k) references a frame that validates with the UUID of the
\* segment_block row.
C6_IndexCountSafety ==
  \A row \in db.segment_blocks :
     \A i \in 0..(mem[row.block_idx + 1].n_valid_indexes - 1) :
        _validate_frame_header(mem[row.block_idx + 1],
                               IndexAt(mem[row.block_idx + 1], i).offset,
                               s_to_entropy_id(row.uuid))

Refused == last_call.op = "write" /\ last_call.ec = NANOTS_EC_NON_MONOTONIC_TIMESTAMP

\* C11: a write with a timestamp <= the context's last written timestamp
\* fails with NON_MONOTONIC_TIMESTAMP and leaves the context, the blocks and
\* the catalog as they were; the write of a larger timestamp that follows is
\* not refused as non-monotonic and succeeds when a block is available.
C11_RefusedWriteChangesNothing ==
  [][\A size \in Sizes, ts \in Timestamps :
       (write(1, FALSE, size, ts, FlagsOf(ts), DataOf(ts)) /\ ctx[1].last_timestamp.has)
       => IF ts <= ctx[1].last_timestamp.v
          THEN /\ last_call'.ec = NANOTS_EC_NON_MONOTONIC_TIMESTAMP
               /\ UNCHANGED <<db, mem, entropy, ctx, wlog, current_stream_tags>>
          ELSE /\ last_call'.ec # NANOTS_EC_NON_MONOTONIC_TIMESTAMP
               /\ (Refused /\ size \in {SmallSize, TightSize} /\ FreeBlockIds(db) # {})
                  => /\ last_call'.ec = NANOTS_EC_OK
                     /\ ctx'[1].last_timestamp = [has |-> TRUE, v |-> ts]]_vars

\* a write was just refused on a context whose block holds a frame
C11_Witness ==
  /\ Refused
  /\ ctx[1].alive
  /\ ctx[1].current_block.has
  /\ mem[ctx[1].current_block.block_id].n_valid_indexes >= 1

NoFreeBlocks == last_call.op = "write" /\ last_call.ec = NANOTS_EC_NO_FREE_BLOCKS

OldestFinalized(row) ==
  /\ row.end_timestamp # 0
  /\ \A o \in db.segment_blocks :
        o.end_timestamp # 0 =>
           \/ row.end_timestamp < o.end_timestamp
           \/ /\ row.end_timestamp = o.end_timestamp
              /\ db.blocks[row.block_id].reserved_at <= db.blocks[o.block_id].reserved_at

\* C13: when a write of a reclaiming Writer acquires a block and none is free,
\* the block is the one bound to the segment_block with the smallest
\* end_timestamp # 0 over all streams (ties: oldest reserved_at); that row and
\* no other is deleted, and a row with end_timestamp = 0 is never taken.
C13_ReclaimsOldestFinalized ==
  [][(AcquireBlock(1) /\ FreeBlockIds(db) = {} /\ ctx'[1].current_block.has)
       => \E row \in db.segment_blocks :
             /\ OldestFinalized(row)
             /\ ctx'[1].current_block.block_id = row.block_id
             /\ row \notin db'.segment_blocks
             /\ db.segment_blocks \ {row} \subseteq db'.segment_blocks]_vars

\* a block was reclaimed while rows of both streams were finalized and a row
\* was open
C13_Witness ==
  /\ ctx[1].pc = "recycle"
  /\ db.seq_segment_blocks > NBlocks
  /\ FreeBlockIds(db) = {}
  /\ \E sb \in db.segment_blocks :
        sb.end_timestamp # 0 /\ sb.segment_id # ctx[1].segment_id

\* the context is alive and has written a frame
HasWritten(c) == ctx[c].alive /\ ctx[c].last_timestamp.has

LastWritten(c) == wlog[ctx[c].segment_id][Len(wlog[ctx[c].segment_id])]

\* C14: with auto_reclaim enabled, the frame most recently written through
\* each live context is among the frames a new iterator on the context's
\* stream tag visits.
C14_LatestFrameReachable ==
  \A c \in Contexts :
     HasWritten(c) =>
        \E i \in DOMAIN IterateAll(ctx[c].stream_tag, db, mem) :
           Payload(IterateAll(ctx[c].stream_tag, db, mem)[i]) = Payload(LastWritten(c))

\* both contexts are alive and have written, and blocks have been reclaimed
C14_Witness ==
  /\ \A c \in Contexts : HasWritten(c)
  /\ db.seq_segment_blocks > NBlocks
  /\ last_call.op = "write"
  /\ last_call.ec = NANOTS_EC_OK

\* the rows free_blocks(stream_tag, lo, hi) is to delete
TagOfRow(d, sb) == {s.stream_tag : s \in {x \in d.segments : x.id = sb.segment_id}}

WhollyInside(d, stream_tag, lo, hi) == {sb \in d.segment_blocks : stream_tag \in TagOfRow(d, sb) /\ lo <= sb.start_timestamp /\ sb.end_timestamp <= hi /\ sb.end_timestamp # 0}

\* the frames written to the rows in `rows`, in segment order then write order
RECURSIVE KeptFrom(_, _)
KeptFrom(s, rows) ==
  IF s > MaxSegments THEN << >>
  ELSE Payloads(SelectSeq(wlog[s], LAMBDA f : \E sb \in rows : sb.id = f.segment_block /\ sb.segment_id = s))
       \o KeptFrom(s + 1, rows)

RowsOf(d, tag) == {sb \in d.segment_blocks : tag \in TagOfRow(d, sb)}

\* `after` is `before` with one contiguous run of frames taken out
OneGap(before, after) == \E i \in 0..Len(before) : \E j \in i..Len(before) : after = SubSeq(before, 1, i) \o SubSeq(before, j + 1, Len(before))

FreedExactly(stream_tag, lo, hi) ==
  LET gone == WhollyInside(db, stream_tag, lo, hi)
  IN /\ db'.segment_blocks = db.segment_blocks \ gone
     /\ \A b \in DOMAIN db.blocks :
          db'.blocks[b] = IF b \in {sb.block_id : sb \in gone}
                          THEN [db.blocks[b] EXCEPT !.status = "free"]
                          ELSE db.blocks[b]
     /\ mem' = mem

IteratesTheRest(stream_tag, lo, hi) ==
  \A tag \in StreamTags :
    /\ Payloads(IterateAll(tag, db, mem)) = KeptFrom(1, RowsOf(db, tag))
    /\ Payloads(IterateAll(tag, db', mem')) = KeptFrom(1, RowsOf(db, tag) \ WhollyInside(db, stream_tag, lo, hi))

LeavesOneGap(stream_tag) == OneGap(Payloads(IterateAll(stream_tag, db, mem)), Payloads(IterateAll(stream_tag, db', mem')))

Increasing(stream_tag) == StrictlyIncreasing(IterateAll(stream_tag, db, mem))

\* C15 as stated: free_blocks(stream_tag, lo, hi) deletes exactly the rows of
\* that tag with start_timestamp >= lo, end_timestamp <= hi and
\* end_timestamp # 0 and sets exactly their blocks free, every other row and
\* block is unchanged, and a new iterator afterwards yields the frames of the
\* remaining rows, which is the former iteration with a single gap.
C15_FreeBlocksSingleGap == [][UNCHANGED <<writers, ctx, wlog, mem>> => \A stream_tag \in StreamTags, lo \in Timestamps : \A hi \in lo..MaxTimestamp : free_blocks(stream_tag, lo, hi) => FreedExactly(stream_tag, lo, hi) /\ (db' = db \/ (IteratesTheRest(stream_tag, lo, hi) /\ LeavesOneGap(stream_tag)))]_vars

\* C15 (amended): the same frame effect on rows, blocks and iteration; the
\* frames taken out form a single gap when the stream's timestamps increase
\* in iteration order.
C15_FreeBlocksFrame == [][UNCHANGED <<writers, ctx, wlog, mem>> => \A stream_tag \in StreamTags, lo \in Timestamps : \A hi \in lo..MaxTimestamp : free_blocks(stream_tag, lo, hi) => FreedExactly(stream_tag, lo, hi) /\ (db' = db \/ (IteratesTheRest(stream_tag, lo, hi) /\ (Increasing(stream_tag) => LeavesOneGap(stream_tag))))]_vars

\* a middle block of stream "a" has been freed: its neighbours in the
\* segment remain and its block is free
C15_Witness ==
  /\ \E x, y \in RowsOf(db, "a") :
       /\ x.segment_id = y.segment_id
       /\ y.sequence = x.sequence + 2
       /\ \A z \in db.segment_blocks : ~(z.segment_id = x.segment_id /\ z.sequence = x.sequence + 1)
  /\ FreeBlockIds(db) # {}

\* C16: free_blocks is all-or-nothing: when a statement of the call fails,
\* after any number of its DELETE and UPDATE statements, no row is deleted
\* and no block status is changed; when none fails, no row wholly inside
\* the range is left and the block of each such row is free.
AllFreed(stream_tag, lo, hi) ==
  /\ WhollyInside(db', stream_tag, lo, hi) = {}
  /\ \A sb \in WhollyInside(db, stream_tag, lo, hi) :
       sb \notin db'.segment_blocks /\ db'.blocks[sb.block_id].status = "free"

C16_FreeBlocksAllOrNothing == [][UNCHANGED <<writers, ctx, wlog, mem>> => \A stream_tag \in StreamTags, hi \in Timestamps : (\A lo \in 0..hi : free_blocks(stream_tag, lo, hi) => AllFreed(stream_tag, lo, hi)) /\ (\A done \in 0..(2 * NBlocks) : free_blocks_throws(stream_tag, 0, hi, done) => UNCHANGED <<db, mem>>)]_vars

\* a call failed after it had deleted a row, freed its block and deleted a
\* second row; every block is still bound
C16_Witness ==
  /\ last_call.op = "free_blocks"
  /\ last_call.ec = NANOTS_EC_UNKNOWN
  /\ last_call.done >= 3
  /\ FreeBlockIds(db) = {}
  /\ Cardinality(db.segment_blocks) = NBlocks

\* C17: a row finalized by a rollover or by the destruction of its context
\* stores as end_timestamp the timestamp of the last frame appended to its
\* block. (The rows that are no context's current block are the finalized
\* ones when no Writer is opened over live contexts.)
IsCurrent(sb) == \E c \in Contexts : ctx[c].alive /\ ctx[c].current_block.has /\ ctx[c].current_block.id = sb.id

FramesOfRow(sb) == SelectSeq(wlog[sb.segment_id], LAMBDA f : f.segment_block = sb.id)

C17_EndTimestampIsLastFrame == \A sb \in db.segment_blocks : (~IsCurrent(sb) /\ (sb.end_timestamp # 0 \/ FramesOfRow(sb) # << >>)) => (FramesOfRow(sb) # << >> /\ sb.end_timestamp = FramesOfRow(sb)[Len(FramesOfRow(sb))].timestamp)

\* C18: once an iterator is invalid (empty stream, stepped past the last
\* frame, stepped before the first frame, or a find that failed), a ++ or --
\* leaves it invalid.
C18_InvalidStaysInvalid == (iter.open /\ iter.step \in {"++", "--"} /\ ~iter.was_valid) => ~iter.valid

\* a -- was called on an invalid iterator of a stream that has frames
C18_Witness ==
  /\ iter.open
  /\ iter.step = "--"
  /\ ~iter.was_valid
  /\ Len(IterateAll("a", db, mem)) >= 2

\* C19: on a frame that is not the last of the stream ++ followed by --
\* returns to the same frame, and on one that is not the first -- followed
\* by ++ does, across block and segment boundaries too.
Counted(sb) == mem[sb.block_id].n_valid_indexes

FramesAfter(it) ==
  \/ \E sb \in StreamRows(db, it.stream_tag) :
       /\ sb.segment_id = it.segment_id /\ sb.sequence = it.block_sequence
       /\ it.frame_idx + 1 < Counted(sb)
  \/ \E sb \in StreamRows(db, it.stream_tag) :
       /\ Counted(sb) >= 1
       /\ \/ sb.segment_id > it.segment_id
          \/ sb.segment_id = it.segment_id /\ sb.sequence > it.block_sequence

FramesBefore(it) ==
  \/ it.frame_idx >= 1
  \/ \E sb \in StreamRows(db, it.stream_tag) :
       /\ Counted(sb) >= 1
       /\ \/ sb.segment_id < it.segment_id
          \/ sb.segment_id = it.segment_id /\ sb.sequence < it.block_sequence

SameFrame(a, b) ==
  /\ a.valid
  /\ b.valid
  /\ a.segment_id = b.segment_id
  /\ a.block_sequence = b.block_sequence
  /\ a.frame_idx = b.frame_idx
  /\ a.frame = b.frame

C19_ThereAndBack ==
  (iter.open /\ iter.valid /\ ctx[1].pc = "idle")
  => /\ FramesAfter(iter) => SameFrame(Decrement(Increment(iter, db, mem), db, mem), iter)
     /\ FramesBefore(iter) => SameFrame(Increment(Decrement(iter, db, mem), db, mem), iter)

\* the frames written under a tag (with the flags value of its stream), in
\* segment order then write order
TagFlags(tag) == IF tag = "a" THEN StreamFlags(1) ELSE StreamFlags(2)

RECURSIVE WrittenUnderFrom(_, _)
WrittenUnderFrom(s, tag) ==
  IF s > MaxSegments THEN << >>
  ELSE Payloads(SelectSeq(wlog[s], LAMBDA f : f.flags = TagFlags(tag))) \o WrittenUnderFrom(s + 1, tag)

WrittenUnder(tag) == WrittenUnderFrom(1, tag)

Count(frames, f) == Cardinality({i \in DOMAIN frames : frames[i] = f})

SameFrames(a, b) == Len(a) = Len(b) /\ \A i \in DOMAIN a : Count(a, a[i]) = Count(b, a[i])

Delivered == rd.op \in {"iterate", "read"}

OnlyOwnFrames == \A i \in DOMAIN rd.out : \E j \in DOMAIN WrittenUnder(rd.stream_tag) : Payload(rd.out[i]) = WrittenUnder(rd.stream_tag)[j]

ExactlyOwnFrames ==
  IF rd.op = "iterate" THEN Payloads(rd.out) = WrittenUnder(rd.stream_tag)
  ELSE SameFrames(Payloads(rd.out), WrittenUnder(rd.stream_tag))

\* C20 as stated: for any interleaving of writes to several tags, an
\* iterator or a range read on a tag delivers exactly the frames written
\* under that tag and never a frame written under another.
C20_ExactlyOwnFrames == Delivered => (OnlyOwnFrames /\ ExactlyOwnFrames)

\* C20 (amended): it delivers only frames written under that tag, and
\* exactly those when the Writer does not reclaim.
C20_StreamsIsolated == Delivered => (OnlyOwnFrames /\ (writers = {FALSE} => ExactlyOwnFrames))

\* both streams have frames in several blocks, written interleaved, and one
\* has been delivered
C20_Witness ==
  /\ Delivered
  /\ Len(rd.out) >= 2
  /\ \A tag \in StreamTags : Len(WrittenUnder(tag)) >= 2
  /\ \E s \in DOMAIN wlog : wlog[s] # << >> /\ wlog[s][1].segment_block >= 2
  /\ Cardinality(db.segment_blocks) = NBlocks

(* ---------------------------------------------------------------------- *)
(* C21: the recovery scan is idempotent                                   *)
(* ---------------------------------------------------------------------- *)
\* C21: running the recovery scan a second time, immediately after a first
\* run, changes neither the catalog nor the block file: the second result
\* equals the first, from every state of the store (crashed ones included).
C21_RecoveryIdempotent ==
  LET first == _validate_blocks(db, mem)
  IN _validate_blocks(first.db, first.mem) = first

\* no Writer is open after a crash, and the first run of the scan finds an
\* open row whose last valid slot is below the last counted one: it
\* finalizes the row and lowers the counter of its block
C21_Witness ==
  /\ writers = {}
  /\ \E row \in OpenRows(db) :
       LET m == mem[row.block_idx + 1]
           last_valid == LastValid(m, s_to_entropy_id(row.uuid))
       IN /\ last_valid >= 0
          /\ last_valid + 1 < m.n_valid_indexes
          /\ _validate_blocks(db, mem).db # db
          /\ _validate_blocks(db, mem).mem # mem

(* ---------------------------------------------------------------------- *)
(* C22: frame regions and the index region                                *)
(* ---------------------------------------------------------------------- *)
\* the bytes [lo, hi) of the frame that index slot i of block m refers to:
\* its offset, and the padded size of the header and payload found there
FrameRegion(m, i) ==
  LET offset == IndexAt(m, i).offset
  IN [lo |-> offset, hi |-> offset + PaddedFrameSize(FrameOf(m, offset).size)]

RegionsApart(m) ==
  LET k == m.n_valid_indexes
  IN \A i \in 0..(k - 1) :
       /\ FramesAt(m, IndexAt(m, i).offset) # {}
       /\ FrameRegion(m, i).lo >= BLOCK_HEADER_SIZE + k * INDEX_ENTRY_SIZE
       /\ FrameRegion(m, i).hi <= BlockSize
       /\ \A j \in 0..(k - 1) :
            i # j => \/ FrameRegion(m, i).hi <= FrameRegion(m, j).lo
                     \/ FrameRegion(m, j).hi <= FrameRegion(m, i).lo

\* C22: in every reachable state and every block, with k = n_valid_indexes,
\* the regions [offset, offset + padded frame size) of the k committed frames
\* are pairwise disjoint, lie inside the block and do not intersect the
\* header and index region [0, 16 + 16 * k).
C22_NoOverlap == \A b \in 1..NBlocks : RegionsApart(mem[b])

\* one block holds two committed frames and has no room for a third, and
\* another holds a frame that leaves no room for a second index entry
C22_Witness ==
  \E b, t \in 1..NBlocks :
    /\ mem[b].n_valid_indexes = 2
    /\ BlockFull(mem[b], SmallSize)
    /\ mem[t].n_valid_indexes = 1
    /\ IndexAt(mem[t], 0).offset < IndexEnd(mem[t])

(* ---------------------------------------------------------------------- *)
(* C23: alignment of frame offsets                                        *)
(* ---------------------------------------------------------------------- *)
\* the payload sizes write() accepts (nanots.cpp 406-408)
AcceptedSizes == 0..LimitSize

\* C23: every frame offset that write has recorded in an index entry is a
\* multiple of 8 from the start of the block, and so is the offset write
\* would record next, for every accepted payload size at every fill level
\* a block has reached.
C23_OffsetsAligned ==
  \A b \in 1..NBlocks :
    /\ \A i \in Slots : IndexAt(mem[b], i).offset % 8 = 0
    /\ \A size \in AcceptedSizes :
         ~BlockFull(mem[b], size) => NewBlockOfs(mem[b], size) % 8 = 0

\* a block holds a frame whose header and payload are not a multiple of 8
\* bytes long, and another block holds two frames
C23_Witness ==
  \E b, t \in 1..NBlocks :
    /\ mem[b].n_valid_indexes = 1
    /\ TotalFrameSize(FrameOf(mem[b], IndexAt(mem[b], 0).offset).size) % 8 # 0
    /\ mem[t].n_valid_indexes = 2
    /\ IndexAt(mem[t], 1).offset # 0

(* ---------------------------------------------------------------------- *)
(* C24: contiguous regions                                                *)
(* ---------------------------------------------------------------------- *)
\* the maximal runs of consecutive sequence numbers among `rows`, by segment
Runs(rows) ==
  {run \in [segment_id : {o.segment_id : o \in rows},
            first : {o.sequence : o \in rows},
            last : {o.sequence : o \in rows}] :
     LET seqs == {o.sequence : o \in {x \in rows : x.segment_id = run.segment_id}}
     IN /\ run.first <= run.last
        /\ \A q \in run.first..run.last : q \in seqs
        /\ run.first - 1 \notin seqs
        /\ run.last + 1 \notin seqs}

RegionOfRun(rows, run) ==
  LET of == {o \in rows : o.segment_id = run.segment_id
                          /\ o.sequence \in run.first..run.last}
  IN [segment_id |-> run.segment_id,
      start_timestamp |-> Min({o.start_timestamp : o \in of}),
      end_timestamp |-> Max({o.end_timestamp : o \in of})]

OneRegionPerRun(stream_tag, lo, hi) ==
  LET rows == ReadRows(db, stream_tag, lo, hi)
      out == query_contiguous_segments(db, stream_tag, lo, hi)
  IN /\ Len(out) = Cardinality(Runs(rows))
     /\ {out[i] : i \in 1..Len(out)} = {RegionOfRun(rows, run) : run \in Runs(rows)}

\* segment s is the whole of a stream written through one context, and the
\* rows of one run of its frames, neither the first nor the last, are gone
InteriorFreed(s) ==
  LET kept(i) == \E sb \in db.segment_blocks : sb.id = wlog[s][i].segment_block
  IN /\ \E x \in db.segments : x.id = s /\ SegmentsOfTag(db, x.stream_tag) = {s}
     /\ \A o \in 1..MaxSegments : wlog[o] # << >> => \E x \in db.segments : x.id = o
     /\ \E i \in 2..(Len(wlog[s]) - 1) : \E j \in i..(Len(wlog[s]) - 1) :
          \A k \in 1..Len(wlog[s]) : kept(k) <=> (k < i \/ k > j)

TwoRegions(s) ==
  LET stream_tag == CHOOSE tag \in StreamTags : s \in SegmentsOfTag(db, tag)
      first == wlog[s][1].timestamp
      last == wlog[s][Len(wlog[s])].timestamp
      out == query_contiguous_segments(db, stream_tag, first, last)
  IN /\ Len(out) = 2
     /\ out[1].start_timestamp = first
     /\ out[2].end_timestamp = last

\* C24: query_contiguous_segments(stream_tag, lo, hi) returns exactly one
\* region per maximal run of consecutive sequence numbers among the blocks
\* of one segment that intersect [lo, hi], from the smallest start_timestamp
\* to the largest end_timestamp of the run; and once free_blocks has removed
\* interior blocks of a stream written through a single context, the query
\* over the stream returns two regions, the first starting at the stream's
\* first timestamp and the second ending at its last timestamp.
C24_ContiguousRegions ==
  /\ \A stream_tag \in StreamTags, lo \in Timestamps : \A hi \in lo..MaxTimestamp :
       OneRegionPerRun(stream_tag, lo, hi)
  /\ \A s \in 1..MaxSegments : InteriorFreed(s) => TwoRegions(s)

\* the first half of C24 alone: one region per maximal run
C24_RunsOnly ==
  \A stream_tag \in StreamTags, lo \in Timestamps : \A hi \in lo..MaxTimestamp :
    OneRegionPerRun(stream_tag, lo, hi)

(* ---------------------------------------------------------------------- *)
(* C25: stream tags in a time range                                       *)
(* ---------------------------------------------------------------------- *)
\* the last timestamp of the block of row sb: the end_timestamp of a
\* finalized row; for an open row the timestamp of the last frame counted
\* in its block, or its start_timestamp when no frame is counted yet
SpanEnd(sb) ==
  LET m == mem[sb.block_id]
  IN IF sb.end_timestamp # 0 THEN sb.end_timestamp
     ELSE IF m.n_valid_indexes > 0
          THEN IndexAt(m, m.n_valid_indexes - 1).timestamp
          ELSE sb.start_timestamp

SpanIntersects(sb, lo, hi) == sb.start_timestamp <= hi /\ SpanEnd(sb) >= lo

TagsInRange(lo, hi) ==
  LET out == query_stream_tags(db, lo, hi)
  IN /\ \A i, j \in 1..Len(out) : out[i] = out[j] => i = j
     /\ \A tag \in StreamTags :
          (\E i \in 1..Len(out) : out[i] = tag)
            <=> \E sb \in RowsOf(db, tag) : SpanIntersects(sb, lo, hi)

\* C25: in every catalog state, with blocks finalized or still open,
\* query_stream_tags(lo, hi) returns each stream tag at most once and returns
\* a tag exactly when the stream has a segment_block whose time span
\* intersects [lo, hi]; a stream with no data in [lo, hi] is not returned.
C25_StreamTags ==
  \A lo \in Timestamps : \A hi \in lo..MaxTimestamp : TagsInRange(lo, hi)

\* C25 on the states where every row is finalized with a non-zero
\* end_timestamp
C25_FinalizedOnly ==
  (\A sb \in db.segment_blocks : sb.end_timestamp # 0) => C25_StreamTags

(* ---------------------------------------------------------------------- *)
(* C26: an accepted payload fits an empty block                           *)
(* ---------------------------------------------------------------------- *)
\* every payload size that passes the size check fits into block m
FitsAccepted(m) == \A size \in AcceptedSizes : ~BlockFull(m, size)

\* C26: every write whose size passes the ROW_SIZE_TOO_BIG check fits into
\* an empty, freshly recycled block, so the rollover branch is never taken
\* with n_valid_indexes = 0: a call of write binds at most one new block (by
\* one rollover, or as the first block of the context) and does not fail in
\* the rollover branch, the first write of a context included.
C26_AtMostOneRollover == [][db'.seq_segment_blocks <= db.seq_segment_blocks + 1 /\ ~(last_call'.op = "write" /\ last_call'.ec = NANOTS_EC_UNKNOWN)]_vars

\* the arithmetic of C26 alone: a block without counted slots has room for
\* every accepted payload size
C26_FitsEmptyBlock ==
  \A b \in 1..NBlocks : mem[b].n_valid_indexes = 0 => FitsAccepted(mem[b])

\* the first write of a context does not fail in the rollover branch
C26_NoThrowInRollover == ~(last_call.op = "write" /\ last_call.ec = NANOTS_EC_UNKNOWN)

(* ---------------------------------------------------------------------- *)
(* C27: segment_blocks and their segments                                 *)
(* ---------------------------------------------------------------------- *)
\* C27: every segment_block row refers to a segments row that exists; the
\* trigger delete_empty_segments never removes the segment of a write
\* context that is still alive and binds a block to it afterwards.
C27_SegmentExists ==
  \A sb \in db.segment_blocks : \E s \in db.segments : s.id = sb.segment_id

(* ---------------------------------------------------------------------- *)
(* C28: the row of a block that is being appended to stays open           *)
(* ---------------------------------------------------------------------- *)
\* C28: while a write context is alive and has a current block, the
\* segment_block row of that block is in the catalog with end_timestamp = 0:
\* nothing but the context's own rollover or destruction finalizes it, so
\* neither reclaim nor free_blocks can take the block.
C28_CurrentRowOpen ==
  \A c \in Contexts :
     ctx[c].alive /\ ctx[c].current_block.has =>
        \E sb \in db.segment_blocks :
           sb.id = ctx[c].current_block.id /\ sb.end_timestamp = 0

(* ---------------------------------------------------------------------- *)
(* C29: recycle and catalog binding                                       *)
(* ---------------------------------------------------------------------- *)
\* the row that binds the block context c has acquired is in the catalog
BindingVisible(c) ==
  \E sb \in db.segment_blocks : sb.id = ctx[c].current_block.id

\* C29: when a write acquires a block, the recycle of the block (counter
\* reset, old index entries zeroed, flushed) is complete before the
\* segment_block row that binds it is visible in the catalog: no write is
\* about to recycle a block whose row can already be read.
C29_RecycleBeforeBinding ==
  \A c \in Contexts : ctx[c].pc = "recycle" => ~BindingVisible(c)

\* the weaker statement that a visible row never binds a block still
\* holding counted slots of its previous use
C29_NoStaleSlotsVisible ==
  \A c \in Contexts :
     ctx[c].pc = "recycle" /\ BindingVisible(c) =>
        mem[ctx[c].current_block.block_id].n_valid_indexes = 0

(* ---------------------------------------------------------------------- *)
(* C30: order of the two writes of the recovery scan                      *)
(* ---------------------------------------------------------------------- *)
\* the scan has written the end_timestamp of the row it is at
CatalogWritten ==
  /\ last_call.op = "validate"
  /\ LastValid(mem[last_call.row.block_idx + 1],
               s_to_entropy_id(last_call.row.uuid)) >= 0

\* C30: in the recovery scan, for an open block whose last valid slot j is
\* below n_valid_indexes - 1, the counter is lowered to j + 1 and flushed
\* before the end_timestamp of the row is written: the catalog is never
\* updated while the block still holds the larger count.
C30_CounterBeforeCatalog ==
  CatalogWritten =>
    mem[last_call.row.block_idx + 1].n_valid_indexes =
      LastValid(mem[last_call.row.block_idx + 1],
                s_to_entropy_id(last_call.row.uuid)) + 1

\* C31: when reset() is called on an existing iterator after the frames of
\* its stream were committed, stepping the iterator forward from there visits
\* every one of them, also those in a block the iterator had loaded before
\* they were written.
IteratorCall == UNCHANGED <<db, mem, entropy, current_stream_tags, writers, ctx, now, rd, last_call, wlog>>

C31_ResetReachesCommitted == [][(IteratorCall /\ ctx[1].pc = "idle" /\ iter'.open /\ iter'.step = "reset") => Payloads(Visit(iter', db, mem, << >>)) = Written("a")]_vars

\* C32: once a write context that has written a frame is destroyed, none of
\* the segment_block rows of its segment is left with end_timestamp = 0,
\* whatever timestamps were accepted, a first timestamp of 0 included.
Destroyed(s) == wlog[s] # << >> /\ \A c \in Contexts : ~(ctx[c].alive /\ ctx[c].segment_id = s)

C32_DestroyedRowsFinalized ==
  \A sb \in db.segment_blocks :
     Destroyed(sb.segment_id) => sb.end_timestamp # 0

\* C32, second part: the frames of the destroyed context are still counted
\* in their blocks after the next Writer's recovery scan.
C32_FramesKeptOnReopen ==
  \A sb \in db.segment_blocks :
     Destroyed(sb.segment_id) =>
        _validate_blocks(db, mem).mem[sb.block_id].n_valid_indexes = Counted(sb)

\* C33: after a Writer is reopened, a block bound to an open row in which
\* the recovery scan finds no valid frame can still be obtained by a write:
\* it is free, or its row is a candidate of the auto-reclaim query, or some
\* call of free_blocks selects its row.
Abandoned(sb) ==
  /\ writers # {}
  /\ sb.end_timestamp = 0
  /\ ~IsCurrent(sb)
  /\ LastValid(mem[sb.block_id], s_to_entropy_id(sb.uuid)) < 0

Obtainable(sb) ==
  \/ sb.block_id \in FreeBlockIds(db)
  \/ sb \in ReclaimCandidates(db)
  \/ \E stream_tag \in StreamTags, lo, hi \in Timestamps : sb \in FreeRows(db, stream_tag, lo, hi)

C33_AbandonedBlockObtainable == \A sb \in db.segment_blocks : Abandoned(sb) => Obtainable(sb)

\* C34: an iterator call never leaves the iterator invalid on a counted slot
\* whose frame fails validation while valid frames follow it in the stream:
\* the invalid frame is skipped and the iterator stands on a later frame.
StoppedAtInvalidFrame(it) ==
  /\ it.open
  /\ ~it.valid
  /\ Cached(it.cache, it.segment_id, it.block_sequence) # {}
  /\ LET ptr == BlockPtr(it.segment_id, it.block_sequence)
     IN /\ Deref(it.cache, ptr).is_loaded
        /\ it.frame_idx < Deref(it.cache, ptr).n_valid_indexes
        /\ ~SlotValid(it.cache, mem, ptr, it.frame_idx)

ValidFrameFollows(it) ==
  \E sb \in StreamRows(db, it.stream_tag) :
     /\ \/ sb.segment_id > it.segment_id
        \/ sb.segment_id = it.segment_id /\ sb.sequence > it.block_sequence
     /\ \E i \in 0..(Counted(sb) - 1) :
          _validate_frame_header(mem[sb.block_id], IndexAt(mem[sb.block_id], i).offset, s_to_entropy_id(sb.uuid))

C34_InvalidFrameSkipped == [][(IteratorCall /\ (iter.valid \/ iter'.step \in {"reset", "find"}) /\ StoppedAtInvalidFrame(iter')) => ~ValidFrameFollows(iter')]_vars

\* C35: a frame whose size field exceeds the space left in the block after
\* its header (size > block_size - offset - 21) is not delivered to a
\* range-read callback and is not exposed as the current frame of an iterator.
Oversized(sb) ==
  LET m == mem[sb.block_id]
      ofs == IndexAt(m, 0).offset
  IN /\ Counted(sb) > 0
     /\ FramesAt(m, ofs) # {}
     /\ FrameOf(m, ofs).size > BlockSize - ofs - FRAME_HEADER_SIZE

C35_OversizedNeverDelivered ==
  \A sb \in db.segment_blocks :
     Oversized(sb) => (rd.out = << >> /\ ~(iter.open /\ iter.valid))

\* C35, the predicate itself: such a frame fails _validate_frame_header.
C35_OversizedFailsValidation ==
  \A sb \in db.segment_blocks :
     Oversized(sb) =>
        ~_validate_frame_header(mem[sb.block_id], IndexAt(mem[sb.block_id], 0).offset, s_to_entropy_id(sb.uuid))

\* C36: every path through create_write_context returns with the live-tag
\* mutex released, and no call tries to acquire the mutex again while it
\* holds it: no context is ever at the second lock of the same call.
C36_MutexNeverRelocked == \A c \in Contexts : ctx[c].pc # "relock"

\* C37: a failing finalize transaction in the destruction of a context is
\* not raised: no destruction ends with an error and the process gone.
C37_FinalizeFailureNotRaised == ~(last_call.op = "destroy" /\ last_call.ec # NANOTS_EC_OK)

\* Ids of the segment_block rows ever created (committed) for a segment:
\* those that received frames and those still in the catalog.
CreatedRows(s) ==
  {wlog[s][i].segment_block : i \in DOMAIN wlog[s]}
    \cup {sb.id : sb \in {x \in db.segment_blocks : x.segment_id = s}}

\* C38: within each segment the rows carry sequence 0, 1, 2, ... in creation
\* order, without gap or repeat, also after a failed block acquisition: the
\* sequence of a row is the number of rows created before it in its segment.
C38_SequencesConsecutive == \A r \in db.segment_blocks : r.sequence = Cardinality({i \in CreatedRows(r.segment_id) : i < r.id})

\* The acquisition of a later block failed at COMMIT: the context has counted
\* a sequence number for a row the catalog does not hold.
C38_FailedAcquisition == \E c \in Contexts : ctx[c].alive /\ ctx[c].pc = "idle" /\ ctx[c].current_block.has /\ ~ctx[c].mapped /\ ctx[c].sequence > Cardinality(CreatedRows(ctx[c].segment_id)) /\ Cardinality(CreatedRows(ctx[c].segment_id)) >= 1

\* A write was refused with NO_FREE_BLOCKS after a rollover, and the retry,
\* after blocks were freed, created the next row of the segment.
C38_RetriedAfterNoFreeBlocks == \E r \in db.segment_blocks : r.sequence = NBlocks

\* C39: reserving a free block stamps its reserved_at with the time of the
\* reservation (so that the promotion of stale reservations, which compares
\* reserved_at with the clock, spares a block reserved less than ten seconds
\* ago): a block that goes from free to reserved has reserved_at = now.
C39_ReservationStamped == [][\A b \in BlockIds : (db.blocks[b].status = "free" /\ db'.blocks[b].status = "reserved") => db'.blocks[b].reserved_at = now]_vars

\* The scan's effect on one open row leaves the file and the catalog alone.
Untouched(row) == ValidateBlock(db, mem, row).mem = mem /\ ValidateBlock(db, mem, row).db = db

\* C40: when the recovery scan finds no valid slot in an open block it leaves
\* the block untouched: n_valid_indexes, the index region, the frames and the
\* catalog rows are the same after the scan as before it.
C40_NoValidSlotUntouched == writers = {} => \A row \in OpenRows(db) : LastValid(mem[row.block_idx + 1], s_to_entropy_id(row.uuid)) < 0 => Untouched(row)

====
